---- MODULE Spec2Model ----
(***************************************************************************)
(* Model of tezedge's MerkleStorage (storage/src/merkle_storage.rs): a     *)
(* content-addressed key/value store with a staging area, commits and      *)
(* checkout.                                                               *)
(*                                                                         *)
(* Representation.                                                         *)
(*   - A String / Vec<u8> is a sequence of bytes (naturals).               *)
(*   - Option<T>: None is <<>>, Some(x) is <<x>>.                          *)
(*   - Result<T, MerkleError>: <<"Ok", x>> or <<"Err", kind>>.             *)
(*   - An EntryHash is modelled by the sequence of fields fed to Blake2b   *)
(*     (the preimage): two hashes are equal exactly when the hashed input  *)
(*     is equal, so the framing of hash_blob / hash_tree / hash_commit     *)
(*     decides which entries share a hash.                                 *)
(*   - A Tree (OrdMap<String, Node>) is a function from segments to Nodes. *)
(***************************************************************************)
EXTENDS Integers, Sequences, FiniteSets, TLC

VARIABLES
    current_stage_tree,   \* MerkleStorage.current_stage_tree : Option<Tree>
    staged,               \* MerkleStorage.staged : HashMap<EntryHash, Entry>
    last_commit_hash,     \* MerkleStorage.last_commit_hash : Option<EntryHash>
    db,                   \* the backing KV store: EntryHash -> serialized Entry
    log,                  \* history: the calls made so far, oldest first
    born,                 \* history: commit hash -> get_history results at creation
    lock,                 \* PersistentStorage.merkle : the RwLock around the engine
    thread,               \* per thread: the guard it holds and the call it is in
    peer,                 \* Peer<S>: write_buf, write_queue and the bytes given to stream
    accepted,             \* the proposals TezedgeStateWrapper::accept received, oldest first
    notifications,        \* TezedgeProposer.notifications
    plog,                 \* history: the calls of Peer::write and Peer::try_flush
    panicked              \* the proposer's thread has panicked

engine_vars == <<current_stage_tree, staged, last_commit_hash, db, log, born, lock, thread>>
proposer_vars == <<peer, accepted, notifications, plog, panicked>>
vars == <<engine_vars, proposer_vars>>

(***************************************************************************)
(* Bounds and input alphabets                                              *)
(***************************************************************************)
MaxOps == 2
MaxDeepOps == 4
MaxKeyLen == 2
MaxApplyOps == 2
MaxSharedOps == 3
\* the width the commit time is kept to
TimeBits == 8

\* the longest message, in bytes; calls on a peer; handlers the proposer
\* enters; requests executed in one turn
MaxMsgLen == 3
MaxPeerOps == 3
MaxProposerOps == 2
MaxRequests == 2

HASH_LEN == 32

SegA == <<97>>
SegB == <<98>>
Segs == {SegA, SegB}

RECURSIVE SeqsUpTo(_, _)
SeqsUpTo(S, n) ==
    IF n = 0 THEN {<<>>}
    ELSE LET shorter == SeqsUpTo(S, n - 1)
         IN  shorter \cup {Append(k, s) : k \in shorter, s \in S}

Keys == SeqsUpTo(Segs, MaxKeyLen)
Values == {<<>>, <<1>>}
\* (time, author, message)
CommitArgs == {<<0, <<>>, <<>>>>}
\* the keys copy is called with: the root, a tree, a nested key, another name
CopyKeys == {<<>>, <<SegA>>, <<SegB>>, <<SegA, SegB>>}
\* the inputs of the deep specification
DeepKeys == {<<SegA>>, <<SegB>>, <<SegA, SegB>>}
DeepCopies == {<<(<<SegA>>), (<<SegB>>)>>, <<(<<SegB>>), (<<SegA, SegB>>)>>}

(***************************************************************************)
(* Option and Result                                                       *)
(***************************************************************************)
None == <<>>
Some(x) == <<x>>
Ok(x) == <<"Ok", x>>
Err(e) == <<"Err", e>>
IsOk(r) == r[1] = "Ok"
IsErr(r, e) == r = Err(e)

(***************************************************************************)
(* Entries, nodes, trees                                                   *)
(***************************************************************************)
EmptyTree == <<>>
EmptyMap == <<>>

Node(kind, hash) == [node_kind |-> kind, entry_hash |-> hash]
TreeEntry(tree) == [kind |-> "Tree", tree |-> tree]
BlobEntry(blob) == [kind |-> "Blob", blob |-> blob]
CommitEntry(commit) == [kind |-> "Commit", commit |-> commit]

\* HashMap::insert / OrdMap::insert
MapInsert(m, k, v) == [x \in (DOMAIN m) \cup {k} |-> IF x = k THEN v ELSE m[x]]
\* OrdMap::remove
MapRemove(m, k) == [x \in (DOMAIN m) \ {k} |-> m[x]]

\* byte-wise lexicographic order of Strings (the order of OrdMap<String, _>)
RECURSIVE LexLess(_, _)
LexLess(s, t) ==
    IF t = <<>> THEN FALSE
    ELSE IF s = <<>> THEN TRUE
    ELSE IF Head(s) # Head(t) THEN Head(s) < Head(t)
    ELSE LexLess(Tail(s), Tail(t))

\* the segments of a set in ascending order (OrdMap::iter)
RECURSIVE SortedSegs(_)
SortedSegs(S) ==
    IF S = {} THEN <<>>
    ELSE LET m == CHOOSE x \in S : \A y \in S \ {x} : LexLess(x, y)
         IN  <<m>> \o SortedSegs(S \ {m})

(***************************************************************************)
(* Hashing: the fields fed to the hasher, in order                         *)
(***************************************************************************)
encode_irmin_node_kind(kind) == IF kind = "NonLeaf" THEN 0 ELSE 255

hash_blob(blob) == <<Len(blob)>> \o blob

RECURSIVE hash_tree_children(_, _)
hash_tree_children(tree, segs) ==
    IF segs = <<>> THEN <<>>
    ELSE LET k == Head(segs)
             v == tree[k]
         IN  <<encode_irmin_node_kind(v.node_kind), Len(k), k, HASH_LEN, v.entry_hash>>
             \o hash_tree_children(tree, Tail(segs))

hash_tree(tree) ==
    <<Cardinality(DOMAIN tree)>> \o hash_tree_children(tree, SortedSegs(DOMAIN tree))

hash_commit(commit) ==
    <<HASH_LEN, commit.root_hash>>
    \o (IF commit.parent_commit_hash = None
        THEN <<0>>
        ELSE <<1, HASH_LEN, commit.parent_commit_hash[1]>>)
    \o <<commit.time, Len(commit.author), commit.author,
         Len(commit.message), commit.message>>

hash_entry(entry) ==
    CASE entry.kind = "Commit" -> hash_commit(entry.commit)
      [] entry.kind = "Tree" -> hash_tree(entry.tree)
      [] entry.kind = "Blob" -> hash_blob(entry.blob)

(***************************************************************************)
(* Entry codec (bincode of enum Entry): variant index, then the payload    *)
(***************************************************************************)
serialize(entry) ==
    CASE entry.kind = "Tree" -> <<0, entry.tree>>
      [] entry.kind = "Blob" -> <<1, entry.blob>>
      [] entry.kind = "Commit" -> <<2, entry.commit>>

deserialize(bytes) ==
    CASE bytes[1] = 0 -> TreeEntry(bytes[2])
      [] bytes[1] = 1 -> BlobEntry(bytes[2])
      [] bytes[1] = 2 -> CommitEntry(bytes[2])

(***************************************************************************)
(* Lookups (&self)                                                         *)
(***************************************************************************)
get_entry(self, hash) ==
    IF hash \in DOMAIN self.staged THEN Ok(self.staged[hash])
    ELSE IF hash \in DOMAIN self.db THEN Ok(deserialize(self.db[hash]))
    ELSE Err("EntryNotFound")

get_tree(self, hash) ==
    LET e == get_entry(self, hash)
    IN  IF ~IsOk(e) THEN e
        ELSE IF e[2].kind = "Tree" THEN Ok(e[2].tree)
        ELSE Err("FoundUnexpectedStructure")

get_commit(self, hash) ==
    LET e == get_entry(self, hash)
    IN  IF ~IsOk(e) THEN e
        ELSE IF e[2].kind = "Commit" THEN Ok(e[2].commit)
        ELSE Err("FoundUnexpectedStructure")

get_non_leaf(hash) == Node("NonLeaf", hash)

\* mutant: a blob on the way is not taken for an empty tree
RECURSIVE find_tree_stops_at_blob(_, _, _)
find_tree_stops_at_blob(self, root, key) ==
    IF key = <<>> THEN Ok(root)
    ELSE IF Head(key) \notin DOMAIN root THEN Ok(EmptyTree)
    ELSE LET e == get_entry(self, root[Head(key)].entry_hash)
         IN  IF ~IsOk(e) THEN e
             ELSE CASE e[2].kind = "Tree" ->
                           find_tree_stops_at_blob(self, e[2].tree, Tail(key))
                    [] e[2].kind = "Blob" -> Err("ValueIsNotABlob")
                    [] e[2].kind = "Commit" -> Err("FoundUnexpectedStructure")

RECURSIVE find_tree(_, _, _)
find_tree(self, root, key) ==
    IF key = <<>> THEN Ok(root)
    ELSE IF Head(key) \notin DOMAIN root THEN Ok(EmptyTree)
    ELSE LET e == get_entry(self, root[Head(key)].entry_hash)
         IN  IF ~IsOk(e) THEN e
             ELSE CASE e[2].kind = "Tree" -> find_tree(self, e[2].tree, Tail(key))
                    [] e[2].kind = "Blob" -> Ok(EmptyTree)
                    [] e[2].kind = "Commit" -> Err("FoundUnexpectedStructure")

get_from_tree(self, root_hash, key) ==
    IF key = <<>> THEN Err("KeyEmpty")
    ELSE LET file == key[Len(key)]
             path == SubSeq(key, 1, Len(key) - 1)
             root == get_tree(self, root_hash)
         IN  IF ~IsOk(root) THEN root
             ELSE LET node == find_tree(self, root[2], path)
                  IN  IF ~IsOk(node) THEN node
                      ELSE IF file \notin DOMAIN node[2] THEN Err("ValueNotFound")
                      ELSE LET e == get_entry(self, node[2][file].entry_hash)
                           IN  IF ~IsOk(e) THEN e
                               ELSE IF e[2].kind = "Blob" THEN Ok(e[2].blob)
                               ELSE Err("ValueIsNotABlob")

get_history(self, commit_hash, key) ==
    LET commit == get_commit(self, commit_hash)
    IN  IF ~IsOk(commit) THEN commit
        ELSE get_from_tree(self, commit[2].root_hash, key)

(***************************************************************************)
(* Listings: the string tree and the key-value pairs under a prefix        *)
(***************************************************************************)
\* the byte of '/'
Slash == 47

\* key.join("/")
RECURSIVE key_to_string(_)
key_to_string(key) ==
    IF key = <<>> THEN <<>>
    ELSE IF Len(key) = 1 THEN key[1]
    ELSE key[1] \o <<Slash>> \o key_to_string(Tail(key))

\* string.split('/')
RECURSIVE string_to_key(_)
string_to_key(string) ==
    LET at == {i \in 1..Len(string) : string[i] = Slash}
    IN  IF at = {} THEN <<string>>
        ELSE LET i == CHOOSE j \in at : \A l \in at : j <= l
             IN  <<SubSeq(string, 1, i - 1)>>
                     \o string_to_key(SubSeq(string, i + 1, Len(string)))

\* hex::encode: two lowercase hex digits per byte
HexDigit(n) == IF n < 10 THEN 48 + n ELSE 87 + n
RECURSIVE hex_encode(_)
hex_encode(blob) ==
    IF blob = <<>> THEN <<>>
    ELSE <<HexDigit(Head(blob) \div 16), HexDigit(Head(blob) % 16)>>
             \o hex_encode(Tail(blob))

StringTreeBlob(hex) == [kind |-> "Blob", hex |-> hex]
StringTreeTree(tree) == [kind |-> "Tree", tree |-> tree]

RECURSIVE get_context_recursive(_, _, _)
RECURSIVE get_context_of_children(_, _, _, _, _, _)

get_context_recursive(self, path, entry) ==
    CASE entry.kind = "Blob" -> Ok(StringTreeBlob(hex_encode(entry.blob)))
      [] entry.kind = "Tree" ->
            LET t == get_context_of_children(self, path, <<Slash>>, entry.tree,
                                             SortedSegs(DOMAIN entry.tree), EmptyMap)
            IN  IF ~IsOk(t) THEN t ELSE Ok(StringTreeTree(t[2]))
      [] entry.kind = "Commit" -> Err("FoundUnexpectedStructure")

\* the loop over the children of a tree, in key order
get_context_of_children(self, path, delimiter, tree, segs, out) ==
    IF segs = <<>> THEN Ok(out)
    ELSE LET key == Head(segs)
             fullpath == path \o delimiter \o key
             e == get_entry(self, tree[key].entry_hash)
         IN  IF ~IsOk(e) THEN e
             ELSE LET sub == get_context_recursive(self, fullpath, e[2])
                  IN  IF ~IsOk(sub) THEN sub
                      ELSE get_context_of_children(self, path, delimiter, tree,
                               Tail(segs), MapInsert(out, key, sub[2]))

get_context_tree_by_prefix(self, context_hash, prefix) ==
    LET commit == get_commit(self, context_hash)
    IN  IF ~IsOk(commit) THEN commit
        ELSE LET root_tree == get_tree(self, commit[2].root_hash)
             IN  IF ~IsOk(root_tree) THEN root_tree
                 ELSE LET prefixed_tree == find_tree(self, root_tree[2], prefix)
                      IN  IF ~IsOk(prefixed_tree) THEN prefixed_tree
                          ELSE get_context_of_children(
                                   self, key_to_string(prefix),
                                   IF prefix = <<>> THEN <<>> ELSE <<Slash>>,
                                   prefixed_tree[2],
                                   SortedSegs(DOMAIN prefixed_tree[2]), EmptyMap)

RECURSIVE get_key_values_from_tree_recursively(_, _, _, _)
RECURSIVE get_key_values_of_children(_, _, _, _, _, _, _)

get_key_values_from_tree_recursively(self, path, entry, entries) ==
    CASE entry.kind = "Blob" -> Ok(Append(entries, <<string_to_key(path), entry.blob>>))
      [] entry.kind = "Tree" ->
            get_key_values_of_children(self, path, <<Slash>>, entry.tree,
                                       SortedSegs(DOMAIN entry.tree), entries, TRUE)
      [] entry.kind = "Commit" ->
            LET e == get_entry(self, entry.commit.root_hash)
            IN  IF ~IsOk(e) THEN e
                ELSE get_key_values_from_tree_recursively(self, path, e[2], entries)

\* the loop over the children of a tree, in key order; a child that does not
\* resolve is passed over inside the recursion and is an error at the top
get_key_values_of_children(self, path, delimiter, tree, segs, entries, pass_over) ==
    IF segs = <<>> THEN Ok(entries)
    ELSE LET key == Head(segs)
             fullpath == path \o delimiter \o key
             e == get_entry(self, tree[key].entry_hash)
         IN  IF ~IsOk(e)
             THEN IF pass_over
                  THEN get_key_values_of_children(self, path, delimiter, tree,
                                                  Tail(segs), entries, pass_over)
                  ELSE e
             ELSE LET r == get_key_values_from_tree_recursively(self, fullpath, e[2], entries)
                  IN  IF ~IsOk(r) THEN r
                      ELSE get_key_values_of_children(self, path, delimiter, tree,
                                                      Tail(segs), r[2], pass_over)

get_key_values_by_prefix_inner(self, root_tree, prefix) ==
    LET prefixed_tree == find_tree(self, root_tree, prefix)
    IN  IF ~IsOk(prefixed_tree) THEN prefixed_tree
        ELSE LET keyvalues == get_key_values_of_children(
                                  self, key_to_string(prefix),
                                  IF prefix = <<>> THEN <<>> ELSE <<Slash>>,
                                  prefixed_tree[2],
                                  SortedSegs(DOMAIN prefixed_tree[2]), <<>>, FALSE)
             IN  IF ~IsOk(keyvalues) THEN keyvalues
                 ELSE IF keyvalues[2] = <<>> THEN Ok(None)
                 ELSE Ok(Some(keyvalues[2]))

get_key_values_by_prefix(self, context_hash, prefix) ==
    LET commit == get_commit(self, context_hash)
    IN  IF ~IsOk(commit) THEN commit
        ELSE LET root_tree == get_tree(self, commit[2].root_hash)
             IN  IF ~IsOk(root_tree) THEN root_tree
                 ELSE get_key_values_by_prefix_inner(self, root_tree[2], prefix)

(***************************************************************************)
(* Operations on &mut self: each returns the new engine and the result     *)
(***************************************************************************)
Ret(self, res) == [self |-> self, res |-> res]

put_to_staging_area(self, key, value) ==
    [self EXCEPT !.staged = MapInsert(self.staged, key, value)]

get_staged_root(self) ==
    IF self.current_stage_tree = None
    THEN Ret(put_to_staging_area(self, hash_tree(EmptyTree), TreeEntry(EmptyTree)),
             Ok(EmptyTree))
    ELSE Ret(self, Ok(self.current_stage_tree[1]))

RECURSIVE compute_new_root_with_change(_, _, _, _)
compute_new_root_with_change(self, root, key, new_node) ==
    IF key = <<>>
    THEN IF new_node # None
         THEN Ret(self, Ok(new_node[1].entry_hash))
         ELSE Ret(self, Ok(get_non_leaf(hash_tree(root)).entry_hash))
    ELSE LET lastSeg == key[Len(key)]
             path == SubSeq(key, 1, Len(key) - 1)
             found == find_tree(self, root, path)
         IN  IF ~IsOk(found) THEN Ret(self, found)
             ELSE LET tree == IF new_node = None
                              THEN MapRemove(found[2], lastSeg)
                              ELSE MapInsert(found[2], lastSeg, new_node[1])
                  IN  IF DOMAIN tree = {}
                      THEN compute_new_root_with_change(self, root, path, None)
                      ELSE LET new_tree_hash == hash_tree(tree)
                               s2 == put_to_staging_area(self, new_tree_hash, TreeEntry(tree))
                           IN  compute_new_root_with_change(
                                   s2, root, path, Some(get_non_leaf(new_tree_hash)))

\* set / delete / copy share their tail: load the new root and make it current
install_root(self, new_root_hash) ==
    LET tree == get_tree(self, new_root_hash)
    IN  IF ~IsOk(tree) THEN Ret(self, tree)
        ELSE Ret([self EXCEPT !.current_stage_tree = Some(tree[2])], Ok(<<>>))

\* mutant: the new blob is not put to the staging area
set_inner_unstaged(self, root, key, value) ==
    compute_new_root_with_change(self, root, key, Some(Node("Leaf", hash_blob(value))))

set_inner(self, root, key, value) ==
    LET blob_hash == hash_blob(value)
        s1 == put_to_staging_area(self, blob_hash, BlobEntry(value))
    IN  compute_new_root_with_change(s1, root, key, Some(Node("Leaf", blob_hash)))

set(self, key, value) ==
    LET r0 == get_staged_root(self)
        r1 == set_inner(r0.self, r0.res[2], key, value)
    IN  IF ~IsOk(r1.res) THEN r1 ELSE install_root(r1.self, r1.res[2])

delete_inner(self, root, key) ==
    IF key = <<>> THEN Ret(self, Ok(hash_tree(root)))
    ELSE compute_new_root_with_change(self, root, key, None)

delete(self, key) ==
    LET r0 == get_staged_root(self)
        r1 == delete_inner(r0.self, r0.res[2], key)
    IN  IF ~IsOk(r1.res) THEN r1 ELSE install_root(r1.self, r1.res[2])

\* mutant: nothing is grafted
copy_inner_nothing(self, root, from_key, to_key) ==
    Ret(self, Ok(hash_tree(root)))

\* mutant: the source is removed once grafted
copy_inner_moves(self, root, from_key, to_key) ==
    LET source_tree == find_tree(self, root, from_key)
        r == compute_new_root_with_change(
                 self, root, to_key, Some(get_non_leaf(hash_tree(source_tree[2]))))
        t == get_tree(r.self, r.res[2])
    IN  IF ~IsOk(source_tree) THEN Ret(self, source_tree)
        ELSE IF ~IsOk(r.res) \/ ~IsOk(t) THEN r
        ELSE compute_new_root_with_change(r.self, t[2], from_key, None)

\* mutant: a copy to the root leaves the root as it is
copy_inner_keeps_root(self, root, from_key, to_key) ==
    LET source_tree == find_tree(self, root, from_key)
    IN  IF ~IsOk(source_tree) THEN Ret(self, source_tree)
        ELSE IF to_key = <<>> THEN Ret(self, Ok(hash_tree(root)))
        ELSE compute_new_root_with_change(
                 self, root, to_key, Some(get_non_leaf(hash_tree(source_tree[2]))))

copy_inner(self, root, from_key, to_key) ==
    LET source_tree == find_tree(self, root, from_key)
    IN  IF ~IsOk(source_tree) THEN Ret(self, source_tree)
        ELSE compute_new_root_with_change(
                 self, root, to_key, Some(get_non_leaf(hash_tree(source_tree[2]))))

copy(self, from_key, to_key) ==
    LET r0 == get_staged_root(self)
        r1 == copy_inner(r0.self, r0.res[2], from_key, to_key)
    IN  IF ~IsOk(r1.res) THEN r1 ELSE install_root(r1.self, r1.res[2])

get(self, key) ==
    LET r0 == get_staged_root(self)
    IN  Ret(r0.self, get_from_tree(r0.self, hash_tree(r0.res[2]), key))

get_by_prefix(self, prefix) ==
    LET r0 == get_staged_root(self)
    IN  Ret(r0.self, get_key_values_by_prefix_inner(r0.self, r0.res[2], prefix))

\* mutant: the staging area is flushed before the commit is looked up
checkout_flushes_first(self, context_hash) ==
    LET flushed == [self EXCEPT !.staged = EmptyMap]
        commit == get_commit(self, context_hash)
    IN  IF ~IsOk(commit) THEN Ret(flushed, commit)
        ELSE LET tree == get_tree(self, commit[2].root_hash)
             IN  IF ~IsOk(tree) THEN Ret(flushed, tree)
                 ELSE Ret([flushed EXCEPT !.current_stage_tree = Some(tree[2]),
                                          !.last_commit_hash = Some(context_hash)],
                          Ok(<<>>))

checkout(self, context_hash) ==
    LET commit == get_commit(self, context_hash)
    IN  IF ~IsOk(commit) THEN Ret(self, commit)
        ELSE LET tree == get_tree(self, commit[2].root_hash)
             IN  IF ~IsOk(tree) THEN Ret(self, tree)
                 ELSE Ret([self EXCEPT !.current_stage_tree = Some(tree[2]),
                                       !.last_commit_hash = Some(context_hash),
                                       !.staged = EmptyMap],
                          Ok(<<>>))

(***************************************************************************)
(* Commit: the reachability sweep and the write batch                      *)
(***************************************************************************)
RECURSIVE get_entries_recursively(_, _, _)
RECURSIVE get_entries_of_children(_, _, _, _)

\* batch: the sequence of (key, value) puts; returns Result<batch>
get_entries_recursively(self, entry, batch) ==
    LET b1 == Append(batch, <<hash_entry(entry), serialize(entry)>>)
    IN  CASE entry.kind = "Blob" -> Ok(b1)
          [] entry.kind = "Tree" ->
                get_entries_of_children(self, entry.tree, SortedSegs(DOMAIN entry.tree), b1)
          [] entry.kind = "Commit" ->
                LET e == get_entry(self, entry.commit.root_hash)
                IN  IF ~IsOk(e) THEN e ELSE get_entries_recursively(self, e[2], b1)

get_entries_of_children(self, tree, segs, batch) ==
    IF segs = <<>> THEN Ok(batch)
    ELSE LET h == tree[Head(segs)].entry_hash
         IN  IF h \notin DOMAIN self.staged
             THEN get_entries_of_children(self, tree, Tail(segs), batch)
             ELSE LET r == get_entries_recursively(self, self.staged[h], batch)
                  IN  IF ~IsOk(r) THEN r
                      ELSE get_entries_of_children(self, tree, Tail(segs), r[2])

\* the backing store's atomic write: all puts in order, or (store_ok = FALSE) none
RECURSIVE apply_puts(_, _)
apply_puts(store, batch) ==
    IF batch = <<>> THEN store
    ELSE apply_puts(MapInsert(store, Head(batch)[1], Head(batch)[2]), Tail(batch))

apply_batch(store, batch, store_ok) ==
    IF store_ok THEN Ret(apply_puts(store, batch), Ok(<<>>))
    ELSE Ret(store, Err("DBError"))

\* mutant: the whole staging map is written, reachable or not
persist_everything_staged(self, entry, store_ok) ==
    IF ~store_ok THEN Ret(self, Err("DBError"))
    ELSE Ret([self EXCEPT !.db =
                  [h \in DOMAIN self.db \cup DOMAIN self.staged |->
                      IF h \in DOMAIN self.staged THEN serialize(self.staged[h])
                      ELSE self.db[h]]],
             Ok(<<>>))

persist_staged_entry_to_db(self, entry, store_ok) ==
    LET batch == get_entries_recursively(self, entry, <<>>)
    IN  IF ~IsOk(batch) THEN Ret(self, batch)
        ELSE LET w == apply_batch(self.db, batch[2], store_ok)
             IN  Ret([self EXCEPT !.db = w.self], w.res)

\* mutant: the commit forgets its parent
commit_without_parent(self, time, author, message, store_ok) ==
    LET r0 == get_staged_root(self)
        new_commit == [parent_commit_hash |-> None,
                       root_hash |-> hash_tree(r0.res[2]),
                       time |-> time, author |-> author, message |-> message]
        entry == CommitEntry(new_commit)
        s1 == put_to_staging_area(r0.self, hash_commit(new_commit), entry)
        p == persist_staged_entry_to_db(s1, entry, store_ok)
    IN  IF ~IsOk(p.res) THEN p
        ELSE Ret([p.self EXCEPT !.staged = EmptyMap,
                                !.last_commit_hash = Some(hash_commit(new_commit))],
                 Ok(hash_commit(new_commit)))

commit(self, time, author, message, store_ok) ==
    LET r0 == get_staged_root(self)
        staged_root_hash == hash_tree(r0.res[2])
        new_commit == [parent_commit_hash |-> self.last_commit_hash,
                       root_hash |-> staged_root_hash,
                       time |-> time, author |-> author, message |-> message]
        entry == CommitEntry(new_commit)
        new_commit_hash == hash_commit(new_commit)
        s1 == put_to_staging_area(r0.self, new_commit_hash, entry)
        p == persist_staged_entry_to_db(s1, entry, store_ok)
    IN  IF ~IsOk(p.res) THEN p
        ELSE Ret([p.self EXCEPT !.staged = EmptyMap,
                                !.last_commit_hash = Some(new_commit_hash)],
                 Ok(new_commit_hash))

(***************************************************************************)
(* Context actions                                                         *)
(***************************************************************************)
\* a context action: its variant and the fields the engine reads
ContextAction(type, key, value, from_key, to_key, ignored, date, author, message, context_hash) ==
    [type |-> type, key |-> key, value |-> value, from_key |-> from_key,
     to_key |-> to_key, ignored |-> ignored, date |-> date, author |-> author,
     message |-> message, context_hash |-> context_hash]

SetAction(key, value, ignored) ==
    ContextAction("Set", key, value, <<>>, <<>>, ignored, 0, <<>>, <<>>, <<>>)
CopyAction(from_key, to_key, ignored) ==
    ContextAction("Copy", <<>>, <<>>, from_key, to_key, ignored, 0, <<>>, <<>>, <<>>)
DeleteAction(key, ignored) ==
    ContextAction("Delete", key, <<>>, <<>>, <<>>, ignored, 0, <<>>, <<>>, <<>>)
RemoveRecursivelyAction(key, ignored) ==
    ContextAction("RemoveRecursively", key, <<>>, <<>>, <<>>, ignored, 0, <<>>, <<>>, <<>>)
CommitAction(date, author, message) ==
    ContextAction("Commit", <<>>, <<>>, <<>>, <<>>, FALSE, date, author, message, <<>>)
CheckoutAction(context_hash) ==
    ContextAction("Checkout", <<>>, <<>>, <<>>, <<>>, FALSE, 0, <<>>, <<>>, context_hash)
\* one of the variants the engine does not act on (Get, Mem, DirMem, Fold, ...)
GetAction(key) ==
    ContextAction("Get", key, <<>>, <<>>, <<>>, FALSE, 0, <<>>, <<>>, <<>>)

\* `date as u64`: the signed date wraps into the unsigned time
as_u64(date) == date % (2 ^ TimeBits)

\* a byte vector that is not HASH_LEN long: the empty vector
ShortVec == <<>>

\* `context_hash.as_slice().try_into()`: a vector of HASH_LEN bytes is a hash
try_into(context_hash) ==
    IF context_hash = ShortVec THEN Err("HashConversionError") ELSE Ok(context_hash)

\* the unit result of an engine call, its error kept
Unit(r) == [r EXCEPT !.res = IF IsOk(@) THEN Ok(<<>>) ELSE @]

\* mutant: the ignored flag is not looked at
apply_context_action_unflagged(self, context_action, store_ok) ==
    LET a == context_action
    IN  CASE a.type = "Set" -> Unit(set(self, a.key, a.value))
          [] a.type = "Copy" -> Unit(copy(self, a.from_key, a.to_key))
          [] a.type = "Delete" -> Unit(delete(self, a.key))
          [] a.type = "RemoveRecursively" -> Unit(delete(self, a.key))
          [] a.type = "Commit" ->
                 Unit(commit(self, as_u64(a.date), a.author, a.message, store_ok))
          [] a.type = "Checkout" ->
                 LET hash == try_into(a.context_hash)
                 IN  IF ~IsOk(hash) THEN Ret(self, hash)
                     ELSE Unit(checkout(self, hash[2]))
          [] OTHER -> Ret(self, Ok(<<>>))

\* store_ok: whether the backing store takes the batch of a Commit action
apply_context_action(self, context_action, store_ok) ==
    LET a == context_action
    IN  CASE a.type = "Set" ->
                 IF ~a.ignored THEN Unit(set(self, a.key, a.value))
                 ELSE Ret(self, Ok(<<>>))
          [] a.type = "Copy" ->
                 IF ~a.ignored THEN Unit(copy(self, a.from_key, a.to_key))
                 ELSE Ret(self, Ok(<<>>))
          [] a.type = "Delete" ->
                 IF ~a.ignored THEN Unit(delete(self, a.key))
                 ELSE Ret(self, Ok(<<>>))
          [] a.type = "RemoveRecursively" ->
                 IF ~a.ignored THEN Unit(delete(self, a.key))
                 ELSE Ret(self, Ok(<<>>))
          [] a.type = "Commit" ->
                 Unit(commit(self, as_u64(a.date), a.author, a.message, store_ok))
          [] a.type = "Checkout" ->
                 LET hash == try_into(a.context_hash)
                 IN  IF ~IsOk(hash) THEN Ret(self, hash)
                     ELSE Unit(checkout(self, hash[2]))
          [] OTHER -> Ret(self, Ok(<<>>))

\* mutant: a failing action does not end the loop
RECURSIVE apply_context_actions_goes_on(_, _, _)
apply_context_actions_goes_on(self, it, store_oks) ==
    IF it = <<>> THEN Ret(self, Ok(<<>>))
    ELSE CHOOSE out \in
             {apply_context_actions_goes_on(r.self, Tail(it), Tail(store_oks)) :
                  r \in {apply_context_action(self, Head(it), Head(store_oks))}} : TRUE

\* store_oks[i]: whether the backing store takes the batch during action i;
\* the engine an action leaves is bound as a value before the next one runs
RECURSIVE apply_context_actions(_, _, _)
apply_context_actions(self, it, store_oks) ==
    IF it = <<>> THEN Ret(self, Ok(<<>>))
    ELSE CHOOSE out \in
             {IF ~IsOk(r.res) THEN r
              ELSE apply_context_actions(r.self, Tail(it), Tail(store_oks)) :
                  r \in {apply_context_action(self, Head(it), Head(store_oks))}} : TRUE

\* MerkleStorage::new over a backing store
new(store) ==
    [current_stage_tree |-> None, staged |-> EmptyMap,
     last_commit_hash |-> None, db |-> store]


(***************************************************************************)
(* The engine behind the readers-writer lock                               *)
(***************************************************************************)
Threads == {1, 2}

\* RwLock::new: no guard is out
Unlocked == [readers |-> {}, writer |-> None]

\* a thread that holds no guard and is in no call
Idle == [guard |-> "none", call |-> None]

\* mutant: read guards are given while a write guard is out
can_read_always(l) == TRUE

\* RwLock::read gives a guard while no write guard is out
can_read(l) == l.writer = None

\* RwLock::write gives the guard while no guard is out
can_write(l) == l.writer = None /\ l.readers = {}

\* the methods that take &self, and those that take &mut self
SharedMethods == {"get_history", "get_key_values_by_prefix", "get_context_tree_by_prefix"}
MutMethods ==
    {"set", "delete", "copy", "commit", "checkout", "get", "get_by_prefix",
     "apply_context_action"}

\* commit, up to the commit entry put to the staging area
commit_begin(self, time, author, message) ==
    LET r0 == get_staged_root(self)
        new_commit == [parent_commit_hash |-> self.last_commit_hash,
                       root_hash |-> hash_tree(r0.res[2]),
                       time |-> time, author |-> author, message |-> message]
    IN  Ret(put_to_staging_area(r0.self, hash_commit(new_commit), CommitEntry(new_commit)),
            new_commit)

\* `self.staged = HashMap::new()`
flush_staged(self) == [self EXCEPT !.staged = EmptyMap]

\* `self.last_commit_hash = Some(hash)`
mark_commit(self, hash) == [self EXCEPT !.last_commit_hash = Some(hash)]

\* checkout, up to the assignment of current_stage_tree
checkout_begin(self, context_hash) ==
    LET found == get_commit(self, context_hash)
    IN  IF ~IsOk(found) THEN Ret(self, found)
        ELSE LET tree == get_tree(self, found[2].root_hash)
             IN  IF ~IsOk(tree) THEN Ret(self, tree)
                 ELSE Ret([self EXCEPT !.current_stage_tree = Some(tree[2])], Ok(<<>>))

(***************************************************************************)
(* The proposer: a peer's write buffer and write queue                     *)
(***************************************************************************)
SendMessageTypes == {"Connect", "Meta", "Ack", "Other"}

\* SendMessage::new; id is history: which message of a run it is
SendMessage(message_type, bytes, id) ==
    [message_type |-> message_type, bytes |-> bytes, id |-> id]

\* SendMessageResult::empty / pending / ok / err; id is history: the message
\* the result is about (0: none)
Result(kind, message_type, error) ==
    [kind |-> kind, message_type |-> message_type, error |-> error, id |-> 0]

empty == Result("Empty", "None", "None")
pending(message_type) == Result("Pending", message_type, "None")
ok(message_type) == Result("Ok", message_type, "None")
err(message_type, error) == Result("Err", message_type, error)

About(result, id) == [result EXCEPT !.id = id]

\* WriteBuffer::new; index counts from 0 as in the source
WriteBuffer(message) == [message |-> message, index |-> 0]

is_finished(buf) == buf.index = Len(buf.message.bytes) - 1

\* &bytes[index..]
next_slice(buf) == SubSeq(buf.message.bytes, buf.index + 1, Len(buf.message.bytes))

Min(a, b) == IF a < b THEN a ELSE b

advance(buf, by) ==
    [buf EXCEPT !.index = Min(buf.index + by, Len(buf.message.bytes) - 1)]

result_pending(buf) == About(pending(buf.message.message_type), buf.message.id)
result_ok(buf) == About(ok(buf.message.message_type), buf.message.id)
result_err(buf, error) == About(err(buf.message.message_type, error), buf.message.id)

\* Peer::new; stream is the sequence of bytes the stream has taken
Peer(stream) == [stream |-> stream, write_buf |-> None, write_queue |-> <<>>]

\* std::io::Write::write: the stream takes the first w[2] bytes of the slice
\* (never more than the slice holds), or fails
stream_write(stream, slice, w) ==
    IF IsOk(w)
    THEN Ret(stream \o SubSeq(slice, 1, Min(w[2], Len(slice))),
             Ok(Min(w[2], Len(slice))))
    ELSE Ret(stream, w)

RECURSIVE try_flush(_, _)
try_flush(self, w) ==
    IF self.write_buf # None
    THEN LET buf == self.write_buf[1]
             r == stream_write(self.stream, next_slice(buf), w)
         IN  IF IsOk(r.res)
             THEN IF is_finished(advance(buf, r.res[2]))
                  THEN Ret([self EXCEPT !.write_buf = None, !.stream = r.self],
                           result_ok(buf))
                  ELSE Ret([self EXCEPT !.write_buf = Some(advance(buf, r.res[2])),
                                        !.stream = r.self],
                           result_pending(buf))
             ELSE IF r.res = Err("WouldBlock") THEN Ret(self, result_pending(buf))
             ELSE Ret([self EXCEPT !.write_buf = None], result_err(buf, "IO"))
    ELSE IF self.write_queue # <<>>
    THEN try_flush([self EXCEPT !.write_buf = Some(WriteBuffer(Head(self.write_queue))),
                                !.write_queue = Tail(self.write_queue)], w)
    ELSE Ret(self, empty)

write(self, msg, w) ==
    IF self.write_buf # None
    THEN try_flush([self EXCEPT !.write_queue = Append(self.write_queue, msg)], w)
    ELSE try_flush([self EXCEPT !.write_buf = Some(WriteBuffer(msg))], w)

(***************************************************************************)
(* The proposer: results of writes become proposals of the state machine   *)
(***************************************************************************)
\* a call on the peer, or the start of a handler, as the history keeps it:
\* seen is the number of proposals accepted before it
PeerCall(op, msg, res, pre, wrote, seen) ==
    [op |-> op, msg |-> msg, res |-> res, pre |-> pre, wrote |-> wrote, seen |-> seen]

\* the bytes a call added to the stream
Wrote(pre, post) == SubSeq(post.stream, Len(pre.stream) + 1, Len(post.stream))

\* a handler of the proposer starts
Enters(p, handler) ==
    [p EXCEPT !.plog = Append(@, PeerCall(handler, None, empty, p.peer, <<>>,
                                          Len(p.accepted)))]

\* `peer.try_flush()` and `conn.write(msg)`, kept in the history
Flushes(p, w) ==
    CHOOSE out \in
        {Ret([p EXCEPT !.peer = r.self,
                       !.plog = Append(@, PeerCall("try_flush", None, r.res, p.peer,
                                                   Wrote(p.peer, r.self),
                                                   Len(p.accepted)))],
             r.res) : r \in {try_flush(p.peer, w)}} : TRUE

Writes(p, msg, w) ==
    CHOOSE out \in
        {Ret([p EXCEPT !.peer = r.self,
                       !.plog = Append(@, PeerCall("write", Some(msg), r.res, p.peer,
                                                   Wrote(p.peer, r.self),
                                                   Len(p.accepted)))],
             r.res) : r \in {write(p.peer, msg, w)}} : TRUE

\* TezedgeStateWrapper::accept: the state machine receives the proposal
accept(p, proposal, message, id) ==
    [p EXCEPT !.accepted = Append(@, [proposal |-> proposal, message |-> message,
                                      id |-> id])]

\* returns true if it is maybe possible to do further write
handle_send_message_result(p, result) ==
    CASE result.kind \in {"Empty", "Pending"} -> Ret(p, FALSE)
      [] result.kind = "Ok" ->
           (CASE result.message_type = "Connect" ->
                     Ret(accept(p, "HandshakeProposal", "SendConnectSuccess", result.id), TRUE)
              [] result.message_type = "Meta" ->
                     Ret(accept(p, "HandshakeProposal", "SendMetaSuccess", result.id), TRUE)
              [] result.message_type = "Ack" ->
                     Ret(accept(p, "HandshakeProposal", "SendAckSuccess", result.id), TRUE)
              [] result.message_type = "Other" -> Ret(p, TRUE))
      [] result.kind = "Err" ->
           (CASE result.message_type = "Connect" ->
                     Ret(accept(p, "HandshakeProposal", "SendConnectError", result.id), TRUE)
              [] result.message_type = "Meta" ->
                     Ret(accept(p, "HandshakeProposal", "SendMetaError", result.id), TRUE)
              [] result.message_type = "Ack" ->
                     Ret(accept(p, "HandshakeProposal", "SendAckError", result.id), TRUE)
              [] result.message_type = "Other" ->
                     Ret([p EXCEPT !.panicked = TRUE], FALSE))

\* `while handle_send_message_result(.., peer.try_flush()) {}`; ws are the
\* answers of the stream, one for every try_flush
RECURSIVE flush_while_possible(_, _)
flush_while_possible(p, ws) ==
    IF ws = <<>> THEN p
    ELSE CHOOSE out \in
             {IF h.res THEN flush_while_possible(h.self, Tail(ws)) ELSE h.self :
                  h \in {handle_send_message_result(f.self, f.res) :
                             f \in {Flushes(p, Head(ws))}}} : TRUE

NetworkEvent(read_closed, write_closed, readable, writable) ==
    [read_closed |-> read_closed, write_closed |-> write_closed,
     readable |-> readable, writable |-> writable]

handle_readiness_event(p, event, ws) ==
    IF event.read_closed \/ event.write_closed
    THEN accept(p, "PeerDisconnectProposal", "None", 0)
    ELSE CHOOSE out \in
             {IF event.writable THEN flush_while_possible(p1, ws) ELSE p1 :
                  p1 \in {IF event.readable
                           THEN accept(p, "PeerReadableProposal", "None", 0)
                           ELSE p}} : TRUE

\* the id of the next message of the run
MaxOf(S) == IF S = {} THEN 0 ELSE LET x == CHOOSE y \in S : \A z \in S : z <= y IN x

fresh_id(p) ==
    1 + MaxOf({p.accepted[i].id : i \in 1..Len(p.accepted)}
              \cup {p.plog[i].msg[1].id : i \in {j \in 1..Len(p.plog) : p.plog[j].msg # None}})

\* the raw bytes of a message: every byte names its message and its place
MessageBytes(id, len) == [i \in 1..len |-> 16 * id + i]

\* what a request to send runs into: whether the peer has a crypto, whether
\* encoding and connecting succeed, and the answer of the stream
Fate(crypto, encode_ok, connect_ok, w) ==
    [crypto |-> crypto, encode_ok |-> encode_ok, connect_ok |-> connect_ok, w |-> w]

\* TezedgeRequest, with the length of the encoded message and its fate
TezedgeRequest(type, len, fate) == [type |-> type, len |-> len, fate |-> fate]

\* Manager::try_send_msg
try_send_msg(p, msg, fate) ==
    IF ~fate.encode_ok
    THEN Ret(p, About(err(msg.message_type, "EncodeFailed"), msg.id))
    ELSE IF ~fate.connect_ok
    THEN Ret(p, About(err(msg.message_type, "EncodeFailed"), msg.id))
    ELSE Writes(p, msg, fate.w)

\* Manager::try_send_msg_encrypted
try_send_msg_encrypted(p, msg, fate) ==
    IF ~fate.encode_ok
    THEN Ret(p, About(err(msg.message_type, "EncodeFailed"), msg.id))
    ELSE IF ~fate.connect_ok
    THEN Ret(p, About(err(msg.message_type, "EncodeFailed"), msg.id))
    ELSE Writes(p, msg, fate.w)

\* Manager::disconnect_peer: the connection is dropped with all it holds
disconnect_peer(p) == [p EXCEPT !.peer = Peer(<<>>)]

push(p, notification) == [p EXCEPT !.notifications = Append(@, notification)]

\* mutant: the result of the write is handled before the pending proposal
report_result_first(r, message, id) ==
    accept(handle_send_message_result(r.self, r.res).self,
           "HandshakeProposal", message, id)

\* after a send: the state machine is told the message is pending, then the
\* result of the write is handled
report(r, message, id) ==
    handle_send_message_result(accept(r.self, "HandshakeProposal", message, id),
                               r.res).self

\* one turn of the loop of execute_requests
execute_request(p, req) ==
    LET id == fresh_id(p)
    IN
    CASE req.type = "SendPeerConnect" ->
            CHOOSE out \in
                {report(r, "SendConnectPending", id) :
                   r \in {try_send_msg(
                              p, SendMessage("Connect", MessageBytes(id, req.len), id),
                              req.fate)}} : TRUE
      [] req.type = "SendPeerMeta" ->
            IF ~req.fate.crypto THEN p
            ELSE CHOOSE out \in
                {report(r, "SendMetaPending", id) :
                   r \in {try_send_msg_encrypted(
                              p, SendMessage("Meta", MessageBytes(id, req.len), id),
                              req.fate)}} : TRUE
      [] req.type = "SendPeerAck" ->
            IF ~req.fate.crypto THEN p
            ELSE CHOOSE out \in
                {report(r, "SendAckPending", id) :
                   r \in {try_send_msg_encrypted(
                              p, SendMessage("Ack", MessageBytes(id, req.len), id),
                              req.fate)}} : TRUE
      [] req.type = "StartListeningForNewPeers" ->
            accept(p, "PendingRequestProposal", "StartListeningForNewPeersSuccess", 0)
      [] req.type = "StopListeningForNewPeers" ->
            accept(p, "PendingRequestProposal", "StopListeningForNewPeersSuccess", 0)
      [] req.type = "DisconnectPeer" ->
            push(accept(disconnect_peer(p),
                        "PendingRequestProposal", "DisconnectPeerSuccess", 0),
                 "PeerDisconnected")
      [] req.type = "BlacklistPeer" ->
            push(accept(disconnect_peer(p),
                        "PendingRequestProposal", "BlacklistPeerSuccess", 0),
                 "PeerBlacklisted")
      [] req.type = "PeerMessageReceived" ->
            push(accept(p, "PendingRequestProposal", "PeerMessageReceivedNotified", 0),
                 "MessageReceived")
      [] req.type = "NotifyHandshakeSuccessful" ->
            accept(push(p, "HandshakeSuccessful"),
                   "PendingRequestProposal", "HandshakeSuccessfulNotified", 0)

\* `for req in state.get_requests()`; a panic ends the loop
RECURSIVE execute_requests(_, _)
execute_requests(p, reqs) ==
    IF reqs = <<>> \/ p.panicked THEN p
    ELSE CHOOSE out \in
             {execute_requests(p1, Tail(reqs)) :
                  p1 \in {execute_request(p, Head(reqs))}} : TRUE

\* a message of the application is sent to a connected peer; the result of
\* the write is dropped
send_message_to_peer_or_queue(p, len, fate) ==
    IF ~fate.crypto \/ ~fate.encode_ok \/ ~fate.connect_ok THEN p
    ELSE Writes(p, SendMessage("Other", MessageBytes(fresh_id(p), len), fresh_id(p)),
                fate.w).self

(***************************************************************************)
(* The state machine: one engine over one backing store                    *)
(***************************************************************************)
Self ==
    [current_stage_tree |-> current_stage_tree, staged |-> staged,
     last_commit_hash |-> last_commit_hash, db |-> db]

Install(self) ==
    /\ current_stage_tree' = self.current_stage_tree
    /\ staged' = self.staged
    /\ last_commit_hash' = self.last_commit_hash
    /\ db' = self.db
    /\ UNCHANGED proposer_vars

\* a record of one call: its name, arguments, result and the engine before it
OpRecord(op, key, value, to_key, hash, res, pre) ==
    [op |-> op, key |-> key, value |-> value, to_key |-> to_key,
     hash |-> hash, res |-> res, pre |-> pre]

\* the call of a caller that has the engine to itself
Record(op, key, value, to_key, hash, r) ==
    /\ log' = Append(log, OpRecord(op, key, value, to_key, hash, r.res, Self))
    /\ UNCHANGED <<lock, thread>>

steps == Len(log) - 1
last == log[Len(log)]
prev == log[Len(log) - 1]

\* what get_history answers for every key of the alphabet
Snapshot(self, commit_hash) == [k \in Keys |-> get_history(self, commit_hash, k)]

\* a hash that names no entry
BogusHash == <<HASH_LEN>>

\* the hashes of the Commit entries the engine can resolve
CommitHashes(self) ==
    {h \in DOMAIN self.staged : self.staged[h].kind = "Commit"}
    \cup {h \in DOMAIN self.db : deserialize(self.db[h]).kind = "Commit"}

CheckoutInputs == CommitHashes(Self) \cup {hash_tree(EmptyTree), BogusHash}

Init ==
    /\ current_stage_tree = None
    /\ staged = EmptyMap
    /\ last_commit_hash = None
    /\ db = EmptyMap
    /\ log = <<OpRecord("new", <<>>, <<>>, <<>>, <<>>, Ok(<<>>), new(EmptyMap))>>
    /\ born = EmptyMap
    /\ lock = Unlocked
    /\ thread = [t \in Threads |-> Idle]
    /\ peer = Peer(<<>>)
    /\ accepted = <<>>
    /\ notifications = <<>>
    /\ plog = <<>>
    /\ panicked = FALSE

Set(n, k, v) ==
    /\ steps < n
    /\ LET r == set(Self, k, v)
       IN  Install(r.self) /\ Record("set", k, v, <<>>, <<>>, r)
    /\ UNCHANGED born

Delete(n, k) ==
    /\ steps < n
    /\ LET r == delete(Self, k)
       IN  Install(r.self) /\ Record("delete", k, <<>>, <<>>, <<>>, r)
    /\ UNCHANGED born

Copy(n, from_key, to_key) ==
    /\ steps < n
    /\ LET r == copy(Self, from_key, to_key)
       IN  Install(r.self) /\ Record("copy", from_key, <<>>, to_key, <<>>, r)
    /\ UNCHANGED born

Get(n, k) ==
    /\ steps < n
    /\ LET r == get(Self, k)
       IN  Install(r.self) /\ Record("get", k, <<>>, <<>>, <<>>, r)
    /\ UNCHANGED born

Commit(n, args, store_ok) ==
    LET r == commit(Self, args[1], args[2], args[3], store_ok)
    IN  /\ steps < n
        /\ Install(r.self)
        /\ Record("commit", <<>>, args, <<>>, <<>>, r)
        /\ born' = IF IsOk(r.res) /\ r.res[2] \notin DOMAIN born
                   THEN MapInsert(born, r.res[2], Snapshot(r.self, r.res[2]))
                   ELSE born

Checkout(n, h) ==
    /\ steps < n
    /\ LET r == checkout(Self, h)
       IN  Install(r.self) /\ Record("checkout", <<>>, <<>>, <<>>, h, r)
    /\ UNCHANGED born

\* the engine is dropped and a new one is created over the same store
Reopen(n) ==
    /\ steps < n
    /\ LET r == Ret(new(db), Ok(<<>>))
       IN  Install(r.self) /\ Record("new", <<>>, <<>>, <<>>, <<>>, r)
    /\ UNCHANGED born

\* every operation, over the whole alphabet
Next ==
    \/ \E k \in Keys, v \in Values : Set(MaxOps, k, v)
    \/ \E k \in Keys : Delete(MaxOps, k)
    \/ \E f \in CopyKeys, t \in CopyKeys : Copy(MaxOps, f, t)
    \/ \E k \in Keys : Get(MaxOps, k)
    \/ \E a \in CommitArgs, store_ok \in BOOLEAN : Commit(MaxOps, a, store_ok)
    \/ \E h \in CheckoutInputs : Checkout(MaxOps, h)
    \/ Reopen(MaxOps)

Spec == Init /\ [][Next]_vars

\* longer runs over a smaller alphabet: histories of several commits
NextDeep ==
    \/ \E k \in DeepKeys, v \in Values : Set(MaxDeepOps, k, v)
    \/ \E k \in DeepKeys : Delete(MaxDeepOps, k)
    \/ \E c \in DeepCopies : Copy(MaxDeepOps, c[1], c[2])
    \/ \E a \in CommitArgs, store_ok \in BOOLEAN : Commit(MaxDeepOps, a, store_ok)
    \/ \E h \in CommitHashes(Self) \cup {BogusHash} : Checkout(MaxDeepOps, h)
    \/ Reopen(MaxDeepOps)

SpecDeep == Init /\ [][NextDeep]_vars

(***************************************************************************)
(* The applier of context actions                                          *)
(***************************************************************************)
\* the keys and dates of the actions applied one at a time
ApplySetKeys == {<<>>, <<SegA>>}
Dates == {0, -1}

\* the actions applied one at a time
ContextActions ==
    {SetAction(k, <<1>>, i) : k \in ApplySetKeys, i \in BOOLEAN}
    \cup {CopyAction(c[1], c[2], i) : c \in DeepCopies, i \in BOOLEAN}
    \cup {DeleteAction(<<SegA>>, i) : i \in BOOLEAN}
    \cup {RemoveRecursivelyAction(<<SegA, SegB>>, i) : i \in BOOLEAN}
    \cup {CommitAction(d, <<>>, <<>>) : d \in Dates}
    \cup {CheckoutAction(h) : h \in CommitHashes(Self) \cup {BogusHash, ShortVec}}
    \cup {GetAction(<<SegA>>)}

\* the actions that streams are made of
StreamActions ==
    {SetAction(<<SegA>>, <<1>>, FALSE), SetAction(<<SegB>>, <<1>>, TRUE),
     RemoveRecursivelyAction(<<SegA>>, FALSE), CommitAction(0, <<>>, <<>>),
     CheckoutAction(BogusHash)}

\* the streams: the empty one and those of two actions
Streams == {<<>>} \cup {<<a, b>> : a \in StreamActions, b \in StreamActions}

\* the store takes every batch, or rejects the batch of one Commit action
StoreOks(it) ==
    {[j \in 1..Len(it) |-> j # i] :
        i \in {0} \cup {j \in 1..Len(it) : it[j].type = "Commit"}}

\* the commits a stream creates, with what get_history answers at creation
RECURSIVE BornAfter(_, _, _, _)
BornAfter(b, self, it, store_oks) ==
    IF it = <<>> THEN b
    ELSE CHOOSE out \in
             {IF ~IsOk(r.res) THEN b
              ELSE LET h == r.self.last_commit_hash[1]
                   IN  IF Head(it).type = "Commit" /\ h \notin DOMAIN b
                       THEN BornAfter(MapInsert(b, h, Snapshot(r.self, h)),
                                      r.self, Tail(it), Tail(store_oks))
                       ELSE BornAfter(b, r.self, Tail(it), Tail(store_oks)) :
                  r \in {apply_context_action(self, Head(it), Head(store_oks))}} : TRUE

ApplyContextAction(n, context_action, store_ok) ==
    /\ steps < n
    /\ \E r \in {apply_context_action(Self, context_action, store_ok)} :
           /\ Install(r.self)
           /\ Record("apply_context_action", <<>>, <<context_action, store_ok>>,
                     <<>>, <<>>, r)
    /\ born' = BornAfter(born, Self, <<context_action>>, <<store_ok>>)

ApplyContextActions(n, it, store_oks) ==
    /\ steps < n
    /\ \E r \in {apply_context_actions(Self, it, store_oks)} :
           /\ Install(r.self)
           /\ Record("apply_context_actions", <<>>, <<it, store_oks>>, <<>>, <<>>, r)
    /\ born' = BornAfter(born, Self, it, store_oks)

NextApply ==
    \/ \E a \in ContextActions :
           \E store_ok \in IF a.type = "Commit" THEN BOOLEAN ELSE {TRUE} :
               ApplyContextAction(MaxApplyOps, a, store_ok)
    \/ \E it \in Streams :
           \E store_oks \in StoreOks(it) :
               ApplyContextActions(MaxApplyOps, it, store_oks)

SpecApply == Init /\ [][NextApply]_vars

(***************************************************************************)
(* Threads that share the engine through PersistentStorage::merkle         *)
(***************************************************************************)
\* a call a thread is in: its method, its arguments, how far it has come, the
\* engine at its start and the commit it is building
Call(op, key, value, to_key, hash, store_ok) ==
    [op |-> op, key |-> key, value |-> value, to_key |-> to_key, hash |-> hash,
     store_ok |-> store_ok, pc |-> 0, pre |-> Self, new_commit |-> <<>>]

InCall(t) == thread[t].call # None
CallOf(t) == thread[t].call[1]

\* the calls begun so far
started == steps + Cardinality({t \in Threads : InCall(t)})

\* the methods the other threads are in
Overlapping(t) == {CallOf(u).op : u \in {x \in Threads \ {t} : InCall(x)}}

\* the commits a thread asks about: those the engine resolves, else a bogus one
KnownCommits == IF CommitHashes(Self) = {} THEN {BogusHash} ELSE CommitHashes(Self)

\* the calls made through a read guard
SharedCalls ==
    {Call("get_history", <<SegA>>, <<>>, <<>>, c, TRUE) : c \in KnownCommits}
    \cup {Call("get_key_values_by_prefix", <<>>, <<>>, <<>>, c, TRUE) : c \in KnownCommits}
    \cup {Call("get_context_tree_by_prefix", <<>>, <<>>, <<>>, c, TRUE) : c \in KnownCommits}

\* the calls made through a write guard
ExclusiveCalls ==
    {Call("set", <<SegA>>, <<1>>, <<>>, <<>>, TRUE),
     Call("delete", <<SegA>>, <<>>, <<>>, <<>>, TRUE),
     Call("copy", <<SegA>>, <<>>, <<SegB>>, <<>>, TRUE),
     Call("get", <<SegA>>, <<>>, <<>>, <<>>, TRUE),
     Call("get_by_prefix", <<>>, <<>>, <<>>, <<>>, TRUE),
     Call("apply_context_action", <<SegB>>, <<1>>, <<>>, <<>>, TRUE)}
    \cup {Call("commit", <<>>, <<0, <<>>, <<>>>>, <<>>, <<>>, store_ok) :
              store_ok \in BOOLEAN}
    \cup {Call("checkout", <<>>, <<>>, <<>>, c, TRUE) : c \in KnownCommits}
    \cup {Call("get_history", <<SegA>>, <<>>, <<>>, c, TRUE) : c \in KnownCommits}

\* the result of a method that runs in one piece; the action applied is a Set
RunCall(self, c) ==
    CASE c.op = "set" -> set(self, c.key, c.value)
      [] c.op = "delete" -> delete(self, c.key)
      [] c.op = "copy" -> copy(self, c.key, c.to_key)
      [] c.op = "get" -> get(self, c.key)
      [] c.op = "get_by_prefix" -> get_by_prefix(self, c.key)
      [] c.op = "apply_context_action" ->
             apply_context_action(self, SetAction(c.key, c.value, FALSE), c.store_ok)
      [] c.op = "get_history" -> Ret(self, get_history(self, c.hash, c.key))
      [] c.op = "get_key_values_by_prefix" ->
             Ret(self, get_key_values_by_prefix(self, c.hash, c.key))
      [] c.op = "get_context_tree_by_prefix" ->
             Ret(self, get_context_tree_by_prefix(self, c.hash, c.key))

\* a call returns: it is recorded with the methods the others were in
Returns(t, res) ==
    /\ log' = Append(log, OpRecord(CallOf(t).op, CallOf(t).key,
                                   <<CallOf(t).value, Overlapping(t), CallOf(t).store_ok>>,
                                   CallOf(t).to_key, CallOf(t).hash, res, CallOf(t).pre))
    /\ thread' = [thread EXCEPT ![t].call = None]

\* a call moves on to its next statement
Proceeds(t, new_commit) ==
    /\ thread' = [thread EXCEPT ![t].call = Some([CallOf(t) EXCEPT !.pc = @ + 1,
                                                        !.new_commit = new_commit])]
    /\ UNCHANGED log

\* `merkle.read()`
LockRead(t) ==
    /\ thread[t] = Idle
    /\ can_read(lock)
    /\ lock' = [lock EXCEPT !.readers = @ \cup {t}]
    /\ thread' = [thread EXCEPT ![t].guard = "read"]
    /\ UNCHANGED <<current_stage_tree, staged, last_commit_hash, db, log, born>>
    /\ UNCHANGED proposer_vars

\* `merkle.write()`
LockWrite(t) ==
    /\ thread[t] = Idle
    /\ can_write(lock)
    /\ lock' = [lock EXCEPT !.writer = Some(t)]
    /\ thread' = [thread EXCEPT ![t].guard = "write"]
    /\ UNCHANGED <<current_stage_tree, staged, last_commit_hash, db, log, born>>
    /\ UNCHANGED proposer_vars

\* the guard is dropped
Unlock(t) ==
    /\ thread[t].guard # "none"
    /\ ~InCall(t)
    /\ lock' = [readers |-> lock.readers \ {t},
                writer |-> IF lock.writer = Some(t) THEN None ELSE lock.writer]
    /\ thread' = [thread EXCEPT ![t] = Idle]
    /\ UNCHANGED <<current_stage_tree, staged, last_commit_hash, db, log, born>>
    /\ UNCHANGED proposer_vars

\* a method is called through the guard: a read guard gives &self only
Begin(t, c) ==
    /\ thread[t].guard # "none"
    /\ ~InCall(t)
    /\ started < MaxSharedOps
    /\ thread[t].guard = "read" => c.op \in SharedMethods
    /\ thread' = [thread EXCEPT ![t].call = Some(c)]
    /\ UNCHANGED <<current_stage_tree, staged, last_commit_hash, db, log, born, lock>>
    /\ UNCHANGED proposer_vars

\* a method other than commit and checkout runs
Run(t) ==
    /\ InCall(t)
    /\ CallOf(t).op \notin {"commit", "checkout"}
    /\ LET r == RunCall(Self, CallOf(t))
       IN  Install(r.self) /\ Returns(t, r.res)
    /\ UNCHANGED <<born, lock>>

\* commit runs its next statement
CommitStep(t) ==
    /\ InCall(t)
    /\ CallOf(t).op = "commit"
    /\ LET c == CallOf(t)
           hash == hash_commit(c.new_commit)
       IN  CASE c.pc = 0 ->
                    LET r == commit_begin(Self, c.value[1], c.value[2], c.value[3])
                    IN  Install(r.self) /\ Proceeds(t, r.res) /\ UNCHANGED born
             [] c.pc = 1 ->
                    LET p == persist_staged_entry_to_db(Self, CommitEntry(c.new_commit),
                                                        c.store_ok)
                    IN  /\ Install(p.self)
                        /\ IF IsOk(p.res) THEN Proceeds(t, c.new_commit)
                           ELSE Returns(t, p.res)
                        /\ UNCHANGED born
             [] c.pc = 2 ->
                    Install(flush_staged(Self)) /\ Proceeds(t, c.new_commit)
                    /\ UNCHANGED born
             [] c.pc = 3 ->
                    /\ Install(mark_commit(Self, hash))
                    /\ Returns(t, Ok(hash))
                    /\ born' = IF hash \notin DOMAIN born
                               THEN MapInsert(born, hash,
                                              Snapshot(mark_commit(Self, hash), hash))
                               ELSE born
    /\ UNCHANGED lock

\* checkout runs its next statement
CheckoutStep(t) ==
    /\ InCall(t)
    /\ CallOf(t).op = "checkout"
    /\ LET c == CallOf(t)
       IN  CASE c.pc = 0 ->
                    LET r == checkout_begin(Self, c.hash)
                    IN  /\ Install(r.self)
                        /\ IF IsOk(r.res) THEN Proceeds(t, <<>>) ELSE Returns(t, r.res)
             [] c.pc = 1 ->
                    Install(mark_commit(Self, c.hash)) /\ Proceeds(t, <<>>)
             [] c.pc = 2 ->
                    Install(flush_staged(Self)) /\ Returns(t, Ok(<<>>))
    /\ UNCHANGED <<born, lock>>

NextShared ==
    \E t \in Threads :
        \/ LockRead(t)
        \/ LockWrite(t)
        \/ Unlock(t)
        \/ \E c \in SharedCalls \cup ExclusiveCalls : Begin(t, c)
        \/ Run(t)
        \/ CommitStep(t)
        \/ CheckoutStep(t)

SpecShared == Init /\ [][NextShared]_vars

(***************************************************************************)
(* The proposer: callers of a peer, and the handlers of the event loop     *)
(***************************************************************************)
Proposer ==
    [peer |-> peer, accepted |-> accepted, notifications |-> notifications,
     plog |-> plog, panicked |-> panicked]

InstallProposer(p) ==
    /\ peer' = p.peer
    /\ accepted' = p.accepted
    /\ notifications' = p.notifications
    /\ plog' = p.plog
    /\ panicked' = p.panicked
    /\ UNCHANGED engine_vars

MsgLens == 2..MaxMsgLen

\* what Write::write can answer: a number of bytes taken, or an error
WriteOutcomes ==
    {Ok(n) : n \in 0..MaxMsgLen} \cup {Err("WouldBlock"), Err("Other")}

\* the messages a peer still holds
Pending(self) == Len(self.write_queue) + (IF self.write_buf = None THEN 0 ELSE 1)

\* Peer::write, called with a new message
Write(message_type, len, w) ==
    /\ Len(plog) < MaxPeerOps
    /\ InstallProposer(
           Writes(Proposer,
                  SendMessage(message_type, MessageBytes(fresh_id(Proposer), len),
                              fresh_id(Proposer)),
                  w).self)

\* Peer::try_flush
TryFlush(w) ==
    /\ Len(plog) < MaxPeerOps
    /\ InstallProposer(Flushes(Proposer, w).self)

NextPeer ==
    \/ \E message_type \in SendMessageTypes, len \in MsgLens, w \in WriteOutcomes :
           Write(message_type, len, w)
    \/ \E w \in WriteOutcomes : TryFlush(w)

SpecPeer == Init /\ [][NextPeer]_vars

\* the handlers the proposer has entered so far
Handlers ==
    {"handle_readiness_event", "execute_requests", "send_message_to_peer_or_queue"}

Entered == Cardinality({i \in 1..Len(plog) : plog[i].op \in Handlers})

NetworkEvents ==
    {NetworkEvent(rc, wc, r, w) : rc \in BOOLEAN, wc \in BOOLEAN,
                                  r \in BOOLEAN, w \in BOOLEAN}

Blocked == Err("WouldBlock")

\* a request to send goes through with every answer of the stream, or fails
\* for want of a crypto, in encoding, or in connecting
Fates ==
    {Fate(TRUE, TRUE, TRUE, w) : w \in WriteOutcomes}
    \cup {Fate(FALSE, TRUE, TRUE, Blocked), Fate(TRUE, FALSE, TRUE, Blocked),
          Fate(TRUE, TRUE, FALSE, Blocked)}

SendRequests == {"SendPeerConnect", "SendPeerMeta", "SendPeerAck"}

OtherRequests ==
    {"StartListeningForNewPeers", "StopListeningForNewPeers", "DisconnectPeer",
     "BlacklistPeer", "PeerMessageReceived", "NotifyHandshakeSuccessful"}

Requests ==
    {TezedgeRequest(t, len, f) : t \in SendRequests, len \in MsgLens, f \in Fates}
    \cup {TezedgeRequest(t, 0, Fate(TRUE, TRUE, TRUE, Blocked)) : t \in OtherRequests}

\* the requests of the turns that execute more than one
BatchRequests ==
    {TezedgeRequest(t, MaxMsgLen, Fate(TRUE, TRUE, TRUE, w)) :
         t \in SendRequests, w \in {Ok(1), Ok(MaxMsgLen), Blocked, Err("Other")}}
    \cup {TezedgeRequest("DisconnectPeer", 0, Fate(TRUE, TRUE, TRUE, Blocked))}

RequestLists ==
    {<<r>> : r \in Requests}
    \cup UNION {[1..n -> BatchRequests] : n \in 2..MaxRequests}

\* the most calls of try_flush the event can lead to: one for every message
\* the peer holds, and the one that finds nothing left
Flushable(event) ==
    IF event.writable /\ ~event.read_closed /\ ~event.write_closed
    THEN Pending(peer) + 1 ELSE 0

\* a readiness event of the peer's stream
HandleReadinessEvent(event, ws) ==
    /\ ~panicked
    /\ Entered < MaxProposerOps
    /\ InstallProposer(
           handle_readiness_event(Enters(Proposer, "handle_readiness_event"), event, ws))

\* the requests of the state machine are executed
ExecuteRequests(reqs) ==
    /\ ~panicked
    /\ Entered < MaxProposerOps
    /\ InstallProposer(execute_requests(Enters(Proposer, "execute_requests"), reqs))

SendMessageToPeerOrQueue(len, fate) ==
    /\ ~panicked
    /\ Entered < MaxProposerOps
    /\ InstallProposer(
           send_message_to_peer_or_queue(
               Enters(Proposer, "send_message_to_peer_or_queue"), len, fate))

NextProposer ==
    \/ \E event \in NetworkEvents :
           \E ws \in [1..Flushable(event) -> WriteOutcomes] :
               HandleReadinessEvent(event, ws)
    \/ \E reqs \in RequestLists : ExecuteRequests(reqs)
    \/ \E len \in MsgLens, fate \in Fates : SendMessageToPeerOrQueue(len, fate)

SpecProposer == Init /\ [][NextProposer]_vars

(***************************************************************************)
(* Properties                                                              *)
(***************************************************************************)
SetOk(r) == r.op = "set" /\ IsOk(r.res)
DeleteOk(r) == r.op = "delete" /\ IsOk(r.res)
CopyOk(r) == r.op = "copy" /\ IsOk(r.res)
CommitOk(r) == r.op = "commit" /\ IsOk(r.res)
CheckoutOk(r) == r.op = "checkout" /\ IsOk(r.res)

\* C1: right after a successful set(k, v) with k non-empty, get(k) returns v;
\* after set(k, v1) followed by set(k, v2) it returns v2.
C1_GetAfterSet ==
    /\ (SetOk(last) /\ last.key # <<>>) => get(Self, last.key).res = Ok(last.value)
    /\ (steps >= 2 /\ SetOk(prev) /\ SetOk(last) /\ prev.key = last.key /\ last.key # <<>>)
          => get(Self, last.key).res = Ok(last.value)

\* C1 witness: set(k, v1) and then set(k, v2) with another value, both successful
C1_Witness ==
    /\ steps >= 2 /\ SetOk(prev) /\ SetOk(last)
    /\ prev.key = last.key /\ last.key # <<>> /\ prev.value # last.value

\* C2: after a successful checkout(c), get(k) answers what get_history(c, k)
\* answers for every key, the staging map is empty, last_commit is c, and the
\* answers are those of the backing store alone (nothing staged before shows).
C2_Checkout ==
    CheckoutOk(last) =>
        /\ \A k \in Keys : get(Self, k).res = get_history(Self, last.hash, k)
        /\ \A k \in Keys : get(Self, k).res = get_history(new(db), last.hash, k)
        /\ staged = EmptyMap
        /\ last_commit_hash = Some(last.hash)

\* C3: get_history(c, k) answers for every commit c and key k what it
\* answered when c was created, whatever was called since.
C3_CommitImmutable ==
    \A c \in DOMAIN born : Snapshot(Self, c) = born[c]

\* the argument key of a call extended by a suffix
Suffixes == SeqsUpTo(Segs, MaxKeyLen)
IsPrefix(p, k) == Len(p) <= Len(k) /\ SubSeq(k, 1, Len(p)) = p

\* the hash of the staging root as the next call sees it
RootHash(self) == hash_tree(get_staged_root(self).res[2])

\* hash h and everything reachable from it is in the backing store
RECURSIVE Persisted(_, _)
Persisted(store, h) ==
    /\ h \in DOMAIN store
    /\ LET e == deserialize(store[h])
       IN  CASE e.kind = "Blob" -> TRUE
             [] e.kind = "Tree" ->
                   \A seg \in DOMAIN e.tree : Persisted(store, e.tree[seg].entry_hash)
             [] e.kind = "Commit" -> Persisted(store, e.commit.root_hash)

\* C4: set(k, v); commit = c1; delete(k); commit = c2, all successful: then
\* get_history(c1, k) returns v and get_history(c2, k) fails with ValueNotFound.
C4_DeletedInLaterCommit ==
    (/\ Len(log) >= 5
     /\ SetOk(log[Len(log) - 3]) /\ CommitOk(log[Len(log) - 2])
     /\ DeleteOk(prev) /\ CommitOk(last)
     /\ prev.key = log[Len(log) - 3].key /\ prev.key # <<>>)
    => /\ get_history(Self, log[Len(log) - 2].res[2], prev.key)
             = Ok(log[Len(log) - 3].value)
       /\ get_history(Self, last.res[2], prev.key) = Err("ValueNotFound")

\* C5: after a successful commit returning c, the commit entry, its root tree
\* and every entry reachable from the root are in the backing store.
C5_CommitPersistsClosure ==
    CommitOk(last) => Persisted(db, last.res[2])

C7_GetAfterDelete ==
    (DeleteOk(last) /\ last.key # <<>>) => get(Self, last.key).res = Err("ValueNotFound")

\* C8: delete(k) of a key at which nothing is stored returns success and
\* changes neither the staging root hash nor the answer of get for any key.
C8_DeleteAbsentIsNoOp ==
    (last.op = "delete" /\ get(last.pre, last.key).res = Err("ValueNotFound")) =>
        /\ IsOk(last.res)
        /\ RootHash(Self) = RootHash(last.pre)
        /\ \A k \in Keys : get(Self, k).res = get(last.pre, k).res

\* C9 as claimed: whenever get(a ++ s) returned v before copy(a, b),
\* get(b ++ s) returns v after it, for every suffix s.
C9_CopyThenGet ==
    last.op = "copy" =>
        \A s \in Suffixes :
            IsOk(get(last.pre, last.key \o s).res) =>
                get(Self, last.to_key \o s).res = get(last.pre, last.key \o s).res

\* C9 amended: whenever get(a ++ s) returned v before a successful copy(a, b),
\* get(b ++ s) returns v after it, for every non-empty suffix s.
C9_CopyThenGetUnder ==
    CopyOk(last) =>
        \A s \in Suffixes \ {<<>>} :
            IsOk(get(last.pre, last.key \o s).res) =>
                get(Self, last.to_key \o s).res = get(last.pre, last.key \o s).res

\* C9 witness: a value under the source is read under the target, which did
\* not hold it before
C9_Witness ==
    /\ CopyOk(last)
    /\ \E s \in Suffixes \ {<<>>} :
          /\ IsOk(get(last.pre, last.key \o s).res)
          /\ get(last.pre, last.to_key \o s).res = Err("ValueNotFound")
          /\ get(Self, last.to_key \o s).res = get(last.pre, last.key \o s).res

\* C10 as claimed: get(from_key ++ s) answers the same after copy(from_key,
\* to_key) as before, for all keys and suffixes.
C10_CopyKeepsSource ==
    last.op = "copy" =>
        \A s \in Suffixes :
            get(Self, last.key \o s).res = get(last.pre, last.key \o s).res

\* C10 amended: a value that get(from_key ++ s) returned before copy(from_key,
\* to_key) is returned after it, for the keys from_key ++ s that neither lie
\* under to_key nor on the path to it.
C10_CopyKeepsSourceApart ==
    last.op = "copy" =>
        \A s \in Suffixes :
            (/\ ~IsPrefix(last.to_key, last.key \o s)
             /\ ~IsPrefix(last.key \o s, last.to_key)
             /\ IsOk(get(last.pre, last.key \o s).res))
                => get(Self, last.key \o s).res = get(last.pre, last.key \o s).res

\* C10 witness: a copy that changed the tree and left a value under the
\* source readable
C10_Witness ==
    /\ CopyOk(last) /\ RootHash(Self) # RootHash(last.pre)
    /\ \E s \in Suffixes :
          /\ ~IsPrefix(last.to_key, last.key \o s)
          /\ ~IsPrefix(last.key \o s, last.to_key)
          /\ IsOk(get(Self, last.key \o s).res)

\* the tree that holds the last segment of k, as the staging root shows it
ParentTree(self, k) ==
    find_tree(self, get_staged_root(self).res[2], SubSeq(k, 1, Len(k) - 1))

\* C11: get([]) fails with KeyEmpty; get(k) fails with ValueNotFound when the
\* parent tree of k has no entry for the last segment of k, and with
\* ValueIsNotABlob when k names a subtree; a failing get leaves the staging
\* root and last_commit as they were.
C11_GetErrors ==
    \A k \in Keys :
        LET r == get(Self, k)
            parent == ParentTree(Self, k)
        IN  /\ k = <<>> => r.res = Err("KeyEmpty")
            /\ (k # <<>> /\ IsOk(parent) /\ k[Len(k)] \notin DOMAIN parent[2])
                   => r.res = Err("ValueNotFound")
            /\ (/\ k # <<>> /\ IsOk(parent) /\ k[Len(k)] \in DOMAIN parent[2]
                /\ parent[2][k[Len(k)]].node_kind = "NonLeaf")
                   => r.res = Err("ValueIsNotABlob")
            /\ ~IsOk(r.res) =>
                   /\ r.self.current_stage_tree = current_stage_tree
                   /\ r.self.last_commit_hash = last_commit_hash
                   /\ RootHash(r.self) = RootHash(Self)

\* C12: for every commit c that commit returned, a new engine over the same
\* backing store answers get_history(c, k) for every key k as the engine that
\* made c did.
C12_PersistsOverReopen ==
    \A c \in DOMAIN born : Snapshot(new(db), c) = born[c]

\* the nested mapping found under path p inside a string tree
RECURSIVE Under(_, _)
Under(string_tree, p) ==
    IF p = <<>> THEN Some(string_tree)
    ELSE IF Head(p) \in DOMAIN string_tree /\ string_tree[Head(p)].kind = "Tree"
         THEN Under(string_tree[Head(p)].tree, Tail(p))
         ELSE None

\* the leaves of a string tree: (path, hex string) pairs
RECURSIVE Leaves(_)
Leaves(string_tree) ==
    UNION {IF string_tree[seg].kind = "Blob"
           THEN {<<(<<seg>>), string_tree[seg].hex>>}
           ELSE {<<(<<seg>>) \o l[1], l[2]>> : l \in Leaves(string_tree[seg].tree)}
           : seg \in DOMAIN string_tree}

\* keys one segment longer than those the calls write
LongKeys == SeqsUpTo(Segs, MaxKeyLen + 1)

\* commit c has a subtree at prefix p
HasSubtree(self, c, p) ==
    p = <<>> \/ get_history(self, c, p) = Err("ValueIsNotABlob")

\* C13: for every commit c and prefix p at which c has a subtree,
\* get_context_tree_by_prefix(c, p) is the nested mapping under p of
\* get_context_tree_by_prefix(c, []), and its leaves are exactly the keys
\* under p at which get_history(c, .) returns a value, mapped to that value.
C13_ContextTree ==
    \A c \in DOMAIN born : \A p \in Keys :
        HasSubtree(Self, c, p) =>
            LET full == get_context_tree_by_prefix(Self, c, <<>>)
                sub == get_context_tree_by_prefix(Self, c, p)
            IN  /\ IsOk(full) /\ IsOk(sub)
                /\ Under(full[2], p) = Some(sub[2])
                /\ \A l \in Leaves(sub[2]) :
                       /\ IsOk(get_history(Self, c, p \o l[1]))
                       /\ hex_encode(get_history(Self, c, p \o l[1])[2]) = l[2]
                /\ \A k \in LongKeys :
                       (IsPrefix(p, k) /\ IsOk(get_history(Self, c, k))) =>
                           <<SubSeq(k, Len(p) + 1, Len(k)),
                             hex_encode(get_history(Self, c, k)[2])>> \in Leaves(sub[2])

\* tree order of keys: segment by segment, each in the order of the tree's map
RECURSIVE KeyLess(_, _)
KeyLess(k1, k2) ==
    IF k2 = <<>> THEN FALSE
    ELSE IF k1 = <<>> THEN TRUE
    ELSE IF Head(k1) # Head(k2) THEN LexLess(Head(k1), Head(k2))
    ELSE KeyLess(Tail(k1), Tail(k2))

\* a listing r is exactly the pairs under prefix p that the reader returns:
\* read[k] is the result of get or get_history for key k
ListsExactly(r, p, read) ==
    LET kvs == IF IsOk(r) /\ r[2] # None THEN r[2][1] ELSE <<>>
    IN  /\ IsOk(r)
        /\ r[2] # None => kvs # <<>>
        /\ \A i \in 1..Len(kvs) :
               /\ IsPrefix(p, kvs[i][1]) /\ kvs[i][1] \in DOMAIN read
               /\ read[kvs[i][1]] = Ok(kvs[i][2])
        /\ \A k \in LongKeys :
               (IsPrefix(p, k) /\ IsOk(read[k])) =>
                   \E i \in 1..Len(kvs) : kvs[i] = <<k, read[k][2]>>
        /\ \A i, j \in 1..Len(kvs) : i < j => KeyLess(kvs[i][1], kvs[j][1])

\* C14: get_by_prefix(p) and get_key_values_by_prefix(c, p) return exactly the
\* (key, value) pairs whose key has p as a prefix and whose value is what get /
\* get_history returns for the key, each once and in tree order, and None
\* exactly when there is no such pair.
C14_ListByPrefix ==
    \A p \in Keys :
        /\ LET read == [k \in LongKeys |-> get(Self, k).res]
           IN  ListsExactly(get_by_prefix(Self, p).res, p, read)
        /\ \A c \in DOMAIN born :
               LET read == [k \in LongKeys |-> get_history(Self, c, k)]
               IN  ListsExactly(get_key_values_by_prefix(Self, c, p), p, read)

\* commit arguments that differ in time, in author or in message
CommitArgVariants ==
    {<<0, <<>>, <<>>>>, <<1, <<>>, <<>>>>, <<0, <<65>>, <<>>>>, <<0, <<>>, <<65>>>>}

\* C15: a commit made when nothing was staged since the last commit or
\* checkout succeeds; its root is the previous commit's root, its parent is
\* the previous last_commit, its hash differs from the previous commit's, and
\* empty commits from the same state with different time, author or message
\* have different hashes.
C15_EmptyCommit ==
    (/\ last.op = "commit" /\ last.pre.staged = EmptyMap
     /\ last.pre.last_commit_hash # None /\ last.res # Err("DBError")) =>
        LET before == last.pre.last_commit_hash[1]
            old_commit == get_commit(last.pre, before)
            new_commit == get_commit(Self, last.res[2])
        IN  /\ IsOk(last.res) /\ IsOk(old_commit) /\ IsOk(new_commit)
            /\ new_commit[2].root_hash = old_commit[2].root_hash
            /\ new_commit[2].parent_commit_hash = Some(before)
            /\ last.res[2] # before
            /\ \A a1, a2 \in CommitArgVariants :
                   a1 # a2 =>
                       commit(last.pre, a1[1], a1[2], a1[3], TRUE).res
                           # commit(last.pre, a2[1], a2[2], a2[3], TRUE).res

\* C16: checkout(h) fails with EntryNotFound when h resolves in neither the
\* staging map nor the backing store and with FoundUnexpectedStructure when h
\* resolves to a tree or a blob; a failing checkout leaves the staging root,
\* the staging map and last_commit as they were.
C16_CheckoutFails ==
    last.op = "checkout" =>
        LET e == get_entry(last.pre, last.hash)
        IN  /\ e = Err("EntryNotFound") => last.res = Err("EntryNotFound")
            /\ (IsOk(e) /\ e[2].kind \in {"Tree", "Blob"})
                   => last.res = Err("FoundUnexpectedStructure")
            /\ ~IsOk(last.res) =>
                   /\ current_stage_tree = last.pre.current_stage_tree
                   /\ staged = last.pre.staged
                   /\ last_commit_hash = last.pre.last_commit_hash

\* C16 witness: a checkout of the hash of a tree fails and the edit staged
\* before it is still staged
C16_Witness ==
    /\ last.op = "checkout" /\ last.res = Err("FoundUnexpectedStructure")
    /\ steps >= 2 /\ SetOk(prev) /\ staged # EmptyMap
    /\ get(Self, prev.key).res = Ok(prev.value)

\* C17: when apply_batch fails during commit, commit returns an error, the
\* backing store, last_commit and the staging root are unchanged, the staging
\* map still holds every entry staged before the call, and a retry with the
\* same arguments over a working store succeeds and returns the hash the
\* first attempt would have returned.
C17_FailedCommitRetry ==
    (last.op = "commit" /\ last.res = Err("DBError")) =>
        LET a == last.value
            retry == commit(Self, a[1], a[2], a[3], TRUE)
            first == commit(last.pre, a[1], a[2], a[3], TRUE)
        IN  /\ db = last.pre.db
            /\ last_commit_hash = last.pre.last_commit_hash
            /\ current_stage_tree = last.pre.current_stage_tree
            /\ \A h \in DOMAIN last.pre.staged :
                   h \in DOMAIN staged /\ staged[h] = last.pre.staged[h]
            /\ IsOk(retry.res) /\ retry.res = first.res
            /\ retry.self.db = first.self.db

\* every hash held by a node of the tree, or of a tree below it, resolves
RECURSIVE NodesResolve(_, _)
NodesResolve(self, tree) ==
    \A seg \in DOMAIN tree :
        LET e == get_entry(self, tree[seg].entry_hash)
        IN  /\ IsOk(e)
            /\ e[2].kind = "Tree" => NodesResolve(self, e[2].tree)

\* C18: every hash held by a Node of a tree reachable from the staging root,
\* and the root hash and the parent hash of every commit in the backing
\* store, resolves in the staging map or in the backing store.
C18_NoDanglingHash ==
    /\ current_stage_tree # None => NodesResolve(Self, current_stage_tree[1])
    /\ \A h \in DOMAIN db :
           LET e == deserialize(db[h])
           IN  e.kind = "Commit" =>
                   /\ IsOk(get_entry(Self, e.commit.root_hash))
                   /\ e.commit.parent_commit_hash # None =>
                          IsOk(get_entry(Self, e.commit.parent_commit_hash[1]))

\* no node of the tree, or of a tree below it, is a NonLeaf node that holds
\* the hash of the empty tree
RECURSIVE NoEmptyChild(_, _)
NoEmptyChild(self, tree) ==
    \A seg \in DOMAIN tree :
        LET e == get_entry(self, tree[seg].entry_hash)
        IN  /\ ~(/\ tree[seg].node_kind = "NonLeaf"
                 /\ tree[seg].entry_hash = hash_tree(EmptyTree))
            /\ (IsOk(e) /\ e[2].kind = "Tree") => NoEmptyChild(self, e[2].tree)

\* C19: no tree reachable from the staging root or from a persisted commit
\* has a child node that references an empty tree.
C19_NoEmptyChild ==
    /\ current_stage_tree # None => NoEmptyChild(Self, current_stage_tree[1])
    /\ \A h \in DOMAIN db :
           LET e == deserialize(db[h])
               root == get_tree(new(db), e.commit.root_hash)
           IN  (e.kind = "Commit" /\ IsOk(root)) => NoEmptyChild(new(db), root[2])

\* the (key, value) pairs that get returns
Readable(self) ==
    {<<k, get(self, k).res[2]>> : k \in {x \in LongKeys : IsOk(get(self, x).res)}}

\* an engine on which the pairs were set one after the other
RECURSIVE RebuildFrom(_, _)
RebuildFrom(self, pairs) ==
    IF pairs = {} THEN self
    ELSE LET p == CHOOSE q \in pairs : TRUE
         IN  RebuildFrom(set(self, p[1], p[2]).self, pairs \ {p})

\* the calls so far, since the engine was created, are set, delete and copy
OnlyEdits == \A i \in 2..Len(log) : log[i].op \in {"set", "delete", "copy"}

\* C20: the staging root hash after any sequence of set, delete and copy is
\* the root hash of any other such sequence after which the same pairs are
\* readable: it is the hash a new engine has once exactly these pairs are set.
C20_CanonicalRoot ==
    OnlyEdits => RootHash(Self) = RootHash(RebuildFrom(new(EmptyMap), Readable(Self)))

\* C21: delete is idempotent: a delete returns success, and a second delete of
\* the same key returns success and leaves the staging root of the first.
C21_DeleteIdempotent ==
    last.op = "delete" =>
        LET again == delete(Self, last.key)
        IN  /\ IsOk(last.res)
            /\ IsOk(again.res)
            /\ again.self.current_stage_tree = current_stage_tree
            /\ RootHash(again.self) = RootHash(Self)

\* C22: a Set, Copy, Delete or RemoveRecursively action whose ignored flag is
\* true returns success and leaves the staging root, the staging map,
\* last_commit and the backing store as they were.
C22_IgnoredIsSkipped ==
    (/\ last.op = "apply_context_action"
     /\ last.value[1].type \in {"Set", "Copy", "Delete", "RemoveRecursively"}
     /\ last.value[1].ignored) =>
        /\ last.res = Ok(<<>>)
        /\ Self = last.pre

\* an ignored Set of a key with no value, on an engine that holds entries
C22_Witness ==
    /\ last.op = "apply_context_action"
    /\ last.value[1].type = "Set" /\ last.value[1].ignored
    /\ last.value[1].key = <<SegA>>
    /\ staged # EmptyMap
    /\ get(Self, <<SegA>>).res = Err("ValueNotFound")

\* the engine operation an action is mapped to, called on self: an action
\* whose ignored flag is set, and any action of another variant, calls nothing
MappedCall(self, a, store_ok) ==
    IF a.type \in {"Set", "Copy", "Delete", "RemoveRecursively"} /\ a.ignored
    THEN Ret(self, Ok(<<>>))
    ELSE IF a.type = "Set" THEN set(self, a.key, a.value)
    ELSE IF a.type = "Copy" THEN copy(self, a.from_key, a.to_key)
    ELSE IF a.type \in {"Delete", "RemoveRecursively"} THEN delete(self, a.key)
    ELSE IF a.type = "Commit"
         THEN commit(self, as_u64(a.date), a.author, a.message, store_ok)
    ELSE IF a.type = "Checkout"
         THEN IF IsOk(try_into(a.context_hash))
              THEN checkout(self, a.context_hash)
              ELSE Ret(self, try_into(a.context_hash))
    ELSE Ret(self, Ok(<<>>))

\* the mapped operations called one by one, in the order of the stream, each
\* on the engine the one before it left: the i-th element is the i-th call
RECURSIVE CallsOneByOne(_, _, _)
CallsOneByOne(self, it, store_oks) ==
    IF it = <<>> THEN <<>>
    ELSE LET r == MappedCall(self, Head(it), Head(store_oks))
         IN  <<r>> \o CallsOneByOne(r.self, Tail(it), Tail(store_oks))

\* C23: apply_context_actions leaves the engine that calling the mapped
\* operations one by one, in the stream's order, leaves: up to and including
\* the first call that fails, whose error it returns, and all of them, with
\* success, when none fails.
C23_ApplierIsSequential ==
    last.op = "apply_context_actions" =>
        LET it == last.value[1]
            calls == CallsOneByOne(last.pre, it, last.value[2])
            failing == {i \in 1..Len(it) : ~IsOk(calls[i].res)}
        IN  IF failing = {}
            THEN /\ last.res = Ok(<<>>)
                 /\ Self = IF it = <<>> THEN last.pre ELSE calls[Len(it)].self
            ELSE LET first == CHOOSE i \in failing : \A j \in failing : i <= j
                 IN  /\ last.res = calls[first].res
                     /\ Self = calls[first].self

\* a stream whose first action set a value and whose second action failed
C23_Witness ==
    /\ last.op = "apply_context_actions"
    /\ Len(last.value[1]) = 2
    /\ last.value[1][1].type = "Set" /\ ~last.value[1][1].ignored
    /\ ~IsOk(last.res)
    /\ get(last.pre, <<SegA>>).res = Err("ValueNotFound")
    /\ get(Self, <<SegA>>).res = Ok(<<1>>)

\* a thread is in the middle of a commit or of a checkout
InTheMiddle(t) == InCall(t) /\ CallOf(t).op \in {"commit", "checkout"} /\ CallOf(t).pc > 0

\* no call has run a statement since the latest call returned
NothingSince == \A t \in Threads : InCall(t) => CallOf(t).pc = 0

\* C24: behind the readers-writer lock a method that takes &mut self (set,
\* delete, copy, commit, checkout, get, get_by_prefix, apply_context_action)
\* runs through a write guard and with no other call overlapping it, so that
\* it leaves what it leaves when run alone; only get_history,
\* get_key_values_by_prefix and get_context_tree_by_prefix overlap each other,
\* and none of them runs while a commit or a checkout is in its middle.
C24_LockSerializes ==
    /\ \A t \in Threads :
           InCall(t) =>
               /\ CallOf(t).op \in MutMethods => thread[t].guard = "write"
               /\ \A u \in Threads \ {t} :
                      InCall(u) => {CallOf(t).op, CallOf(u).op} \subseteq SharedMethods
               /\ CallOf(t).op \in SharedMethods =>
                      \A u \in Threads : ~InTheMiddle(u)
    /\ steps >= 1 =>
           /\ last.value[2] # {} =>
                  {last.op} \cup last.value[2] \subseteq SharedMethods
           /\ (last.op = "commit" /\ NothingSince) =>
                  LET r == commit(last.pre, last.value[1][1], last.value[1][2],
                                  last.value[1][3], last.value[3])
                  IN  Self = r.self /\ last.res = r.res
           /\ (last.op = "checkout" /\ NothingSince) =>
                  LET r == checkout(last.pre, last.hash)
                  IN  Self = r.self /\ last.res = r.res

\* two threads are in history reads at once, after a commit went through
C24_Witness ==
    /\ \A t \in Threads : InCall(t) /\ CallOf(t).op \in SharedMethods
    /\ CallOf(1).op # CallOf(2).op
    /\ CommitOk(last)
    /\ \A t \in Threads : CallOf(t).hash = last.res[2]

\* key k names a subtree of the staging root
NamesSubtree(self, k) == k = <<>> \/ get(self, k).res = Err("ValueIsNotABlob")

\* C25: after copy(from_key, []) with from_key naming a subtree, get(k)
\* returns what get(from_key ++ k) returned before, for every key k that get
\* takes (the non-empty ones), so that nothing outside the subtree is
\* readable; the copy of a subtree below the root succeeds.
C25_CopyToRoot ==
    (last.op = "copy" /\ last.to_key = <<>> /\ NamesSubtree(last.pre, last.key)) =>
        /\ last.key # <<>> => IsOk(last.res)
        /\ \A k \in Keys \ {<<>>} :
               get(Self, k).res = get(last.pre, last.key \o k).res

\* a copy to the root that took a value from under from_key and left another,
\* outside the subtree, unreadable
C25_Witness ==
    /\ CopyOk(last) /\ last.to_key = <<>> /\ last.key # <<>>
    /\ get(last.pre, last.key).res = Err("ValueIsNotABlob")
    /\ \E k \in Keys \ {<<>>} :
           /\ IsOk(get(Self, k).res)
           /\ get(Self, k).res = get(last.pre, last.key \o k).res
           /\ get(last.pre, k).res # get(Self, k).res

\* C26: set(k, v) overwrites what is at k and on the way to k. If k named a
\* subtree, afterwards get(k) returns v and get(k ++ s) fails with
\* ValueNotFound for every non-empty suffix s; if a strict prefix p of k held
\* a blob, afterwards get(p) fails with ValueIsNotABlob and get(k) returns v.
C26_SetOverwrites ==
    (last.op = "set" /\ last.key # <<>>) =>
        /\ get(last.pre, last.key).res = Err("ValueIsNotABlob") =>
               /\ get(Self, last.key).res = Ok(last.value)
               /\ \A s \in Suffixes \ {<<>>} :
                      get(Self, last.key \o s).res = Err("ValueNotFound")
        /\ \A p \in Keys \ {<<>>} :
               (/\ IsPrefix(p, last.key) /\ p # last.key
                /\ IsOk(get(last.pre, p).res)) =>
                   /\ get(Self, p).res = Err("ValueIsNotABlob")
                   /\ get(Self, last.key).res = Ok(last.value)

\* both cases, one after the other: a value set where a subtree was, whose
\* keys are gone, and then a value set below the key that now holds a blob
C26_Witness ==
    /\ steps >= 3 /\ SetOk(prev) /\ SetOk(last)
    /\ get(prev.pre, prev.key).res = Err("ValueIsNotABlob")
    /\ \E s \in Suffixes \ {<<>>} :
           /\ IsOk(get(prev.pre, prev.key \o s).res)
           /\ get(last.pre, prev.key \o s).res = Err("ValueNotFound")
    /\ get(last.pre, prev.key).res = Ok(prev.value)
    /\ IsPrefix(prev.key, last.key) /\ prev.key # last.key
    /\ get(Self, prev.key).res = Err("ValueIsNotABlob")
    /\ get(Self, last.key).res = Ok(last.value)

\* neither key is a prefix of the other
Apart(k1, k2) == ~IsPrefix(k1, k2) /\ ~IsPrefix(k2, k1)

\* C28: set(k, v) changes the tree only at k: get(k') answers the same after
\* it as before for every key k' that is neither a prefix of k nor has k as a
\* prefix, and last_commit and the backing store are as they were.
C28_SetFrame ==
    last.op = "set" =>
        /\ \A k \in LongKeys :
               Apart(k, last.key) => get(Self, k).res = get(last.pre, k).res
        /\ last_commit_hash = last.pre.last_commit_hash
        /\ db = last.pre.db

\* the write batch the sweep of commit(time, author, message) builds on self
SweepBatch(self, time, author, message) ==
    LET begun == commit_begin(self, time, author, message)
    IN  get_entries_recursively(begun.self, CommitEntry(begun.res), <<>>)

\* C29: the sweep of a commit puts each entry hash into the write batch at
\* most once, also when a blob or a subtree is referenced from several paths.
C29_SweepPutsOnce ==
    last.op = "commit" =>
        LET swept == SweepBatch(last.pre, last.value[1], last.value[2], last.value[3])
        IN  IsOk(swept) =>
                \A i, j \in 1..Len(swept[2]) :
                    swept[2][i][1] = swept[2][j][1] => i = j

\* C30: the backing store changes only through a successful commit: set,
\* delete, copy, get, checkout, a failed commit and the listings leave it as
\* it was, and no call removes a stored hash or changes the bytes stored
\* under one.
C30_StoreGrowsByCommit ==
    /\ ~CommitOk(last) => db = last.pre.db
    /\ \A h \in DOMAIN last.pre.db : h \in DOMAIN db /\ db[h] = last.pre.db[h]
    /\ \A p \in Keys : get_by_prefix(Self, p).self.db = db

\* C31: a commit made when the staging map is empty returns the hash of the
\* last commit and creates no new commit: the backing store and last_commit
\* stay as they were.
C31_NoEmptyCommit ==
    (/\ last.op = "commit" /\ IsOk(last.res)
     /\ last.pre.staged = EmptyMap /\ last.pre.last_commit_hash # None) =>
        /\ last.res = Ok(last.pre.last_commit_hash[1])
        /\ last_commit_hash = last.pre.last_commit_hash
        /\ db = last.pre.db

\* the calls after call i of the log are all edits of the staging root
EditsSince(i) ==
    \A j \in (i + 1)..Len(log) : log[j].op \in {"set", "delete", "copy"}

\* the engine as call i of the log left it
After(i) == IF i = Len(log) THEN Self ELSE log[i + 1].pre

\* C32: right after commit returns c, get_history(c, k) answers for every
\* key k what get(k) answers, and set, delete and copy calls made after the
\* commit leave every answer of get_history(c, k) as it was.
C32_CommitIsSnapshot ==
    \A i \in 2..Len(log) :
        (log[i].op = "commit" /\ IsOk(log[i].res) /\ EditsSince(i)) =>
            LET c == log[i].res[2]
            IN  /\ \A k \in Keys : get_history(After(i), c, k) = get(After(i), k).res
                /\ Snapshot(Self, c) = Snapshot(After(i), c)

\* the hashes an engine resolves on the way down from hash h: the entry
\* itself, a commit's root, a tree's children
RECURSIVE ReachableFrom(_, _)
ReachableFrom(self, h) ==
    LET e == get_entry(self, h)
    IN  IF ~IsOk(e) THEN {}
        ELSE {h} \cup
             CASE e[2].kind = "Blob" -> {}
               [] e[2].kind = "Tree" ->
                     UNION {ReachableFrom(self, e[2].tree[s].entry_hash) :
                                s \in DOMAIN e[2].tree}
               [] e[2].kind = "Commit" -> ReachableFrom(self, e[2].commit.root_hash)

\* the hashes under which a call wrote to the backing store
Written(before, after) ==
    {h \in DOMAIN after : h \notin DOMAIN before \/ after[h] # before[h]}

\* C33: every entry a successful commit writes to the backing store is
\* reachable from the new commit; a staged entry that is not reachable from
\* it is not written, and the staging map is empty afterwards.
C33_WritesOnlyReachable ==
    CommitOk(last) =>
        LET reachable == ReachableFrom(Self, last.res[2])
        IN  /\ Written(last.pre.db, db) \subseteq reachable
            /\ \A h \in DOMAIN last.pre.staged \ reachable :
                   h \notin Written(last.pre.db, db)
            /\ staged = EmptyMap

\* C33 witness: a value was set and then overwritten; the commit wrote the
\* second blob and left the first, still staged before the commit, out of the
\* backing store
C33_Witness ==
    /\ CommitOk(last) /\ steps >= 3 /\ SetOk(prev) /\ SetOk(log[Len(log) - 2])
    /\ prev.key = log[Len(log) - 2].key
    /\ hash_blob(log[Len(log) - 2].value) \in DOMAIN last.pre.staged
    /\ hash_blob(log[Len(log) - 2].value) \notin DOMAIN db
    /\ hash_blob(prev.value) \in Written(last.pre.db, db)

\* every Leaf node of the tree, or of a tree below it, holds a hash that
\* resolves to a Blob and every NonLeaf node one that resolves to a Tree
RECURSIVE NodesTyped(_, _)
NodesTyped(self, tree) ==
    \A seg \in DOMAIN tree :
        LET e == get_entry(self, tree[seg].entry_hash)
        IN  /\ IsOk(e)
            /\ tree[seg].node_kind = "Leaf" => e[2].kind = "Blob"
            /\ tree[seg].node_kind = "NonLeaf" =>
                   e[2].kind = "Tree" /\ NodesTyped(self, e[2].tree)

\* the trees an engine starts from: the staging root and the root of every
\* commit of the backing store
RootTrees(self) ==
    (IF self.current_stage_tree = None THEN {} ELSE {self.current_stage_tree[1]})
    \cup {get_tree(self, deserialize(self.db[h]).commit.root_hash)[2] :
              h \in {c \in DOMAIN self.db :
                        /\ deserialize(self.db[c]).kind = "Commit"
                        /\ IsOk(get_tree(self, deserialize(self.db[c]).commit.root_hash))}}

\* C34: in every reachable state every Leaf node references a hash that
\* resolves to a Blob and every NonLeaf node one that resolves to a Tree, so
\* that find_tree and get_context_recursive never answer
\* FoundUnexpectedStructure.
C34_NodesTyped ==
    \A root \in RootTrees(Self) :
        /\ NodesTyped(Self, root)
        /\ \A k \in Keys : find_tree(Self, root, k) # Err("FoundUnexpectedStructure")
        /\ get_context_recursive(Self, <<>>, TreeEntry(root))
               # Err("FoundUnexpectedStructure")

\* C35: set([], v) returns an error and leaves the readable state as it was:
\* the staging root (a tree, never the blob), last_commit and the answer of
\* get for every key.
C35_SetEmptyKey ==
    (last.op = "set" /\ last.key = <<>>) =>
        /\ ~IsOk(last.res)
        /\ current_stage_tree = last.pre.current_stage_tree
        /\ last_commit_hash = last.pre.last_commit_hash
        /\ \A k \in Keys : get(Self, k).res = get(last.pre, k).res

\* the backing store holds a Commit entry under hash h
PersistedCommit(store, h) ==
    h \in DOMAIN store /\ deserialize(store[h]).kind = "Commit"

\* C36: in every reachable state last_commit is unset or the hash of a
\* Commit entry of the backing store, and the parent of every Commit entry of
\* the backing store is in the backing store too.
C36_LastCommitPersisted ==
    /\ last_commit_hash # None => PersistedCommit(db, last_commit_hash[1])
    /\ \A h \in DOMAIN db :
           LET e == deserialize(db[h])
           IN  (e.kind = "Commit" /\ e.commit.parent_commit_hash # None) =>
                   PersistedCommit(db, e.commit.parent_commit_hash[1])

\* the place in the history of the call of Peer::write that passed message id
WrittenAt(id) ==
    CHOOSE i \in 1..Len(plog) : plog[i].op = "write" /\ plog[i].msg[1].id = id

\* the ids of the messages passed to Peer::write so far
Passed == {plog[i].msg[1].id : i \in {j \in 1..Len(plog) : plog[j].op = "write"}}

\* message id has finished or failed in one of the first n calls
Resolved(id, n) ==
    \E j \in 1..n : plog[j].res.id = id /\ plog[j].res.kind \in {"Ok", "Err"}

\* C37: the write queue of a peer is first in, first out: when a call gives
\* bytes of a message to the stream, every message passed to Peer::write
\* before that one has finished or failed in an earlier call.
C37_WriteQueueFifo ==
    \A j \in 1..Len(plog) :
        plog[j].wrote # <<>> =>
            \A id \in Passed :
                WrittenAt(id) < WrittenAt(plog[j].res.id) => Resolved(id, j - 1)

\* the bytes of message id the stream has taken in the first n calls
RECURSIVE Taken(_, _)
Taken(id, n) ==
    IF n = 0 THEN <<>>
    ELSE Taken(id, n - 1) \o (IF plog[n].res.id = id THEN plog[n].wrote ELSE <<>>)

\* C38: try_flush answers Ok for a message only when the stream has taken
\* every byte of it, whatever sizes the stream answered, and every call goes
\* on from the first byte the stream has not taken.
C38_OkMeansAllWritten ==
    \A j \in 1..Len(plog) :
        plog[j].res.kind # "Empty" =>
            LET id == plog[j].res.id
                bytes == plog[WrittenAt(id)].msg[1].bytes
            IN  /\ Taken(id, j) = SubSeq(bytes, 1, Len(Taken(id, j)))
                /\ plog[j].res.kind = "Ok" => Taken(id, j) = bytes

PendingMsgs == {"SendConnectPending", "SendMetaPending", "SendAckPending"}

ResultMsgs ==
    {"SendConnectSuccess", "SendMetaSuccess", "SendAckSuccess",
     "SendConnectError", "SendMetaError", "SendAckError"}

\* the pending proposal that belongs to a result proposal
PendingOf(message) ==
    CASE message \in {"SendConnectSuccess", "SendConnectError"} -> "SendConnectPending"
      [] message \in {"SendMetaSuccess", "SendMetaError"} -> "SendMetaPending"
      [] message \in {"SendAckSuccess", "SendAckError"} -> "SendAckPending"

\* C39: for every SendPeerConnect, SendPeerMeta and SendPeerAck request the
\* state machine receives the Send*Pending proposal before the Send*Success
\* or Send*Error proposal of the same message, and it receives at most one
\* such result proposal for a message.
C39_PendingBeforeResult ==
    \A i \in 1..Len(accepted) :
        accepted[i].message \in ResultMsgs =>
            /\ \E j \in 1..(i - 1) :
                   /\ accepted[j].message = PendingOf(accepted[i].message)
                   /\ accepted[j].id = accepted[i].id
            /\ \A k \in 1..Len(accepted) :
                   (k # i /\ accepted[k].message \in ResultMsgs)
                       => accepted[k].id # accepted[i].id

\* C39 witness: one turn of execute_requests sent a Connect message that
\* stayed pending and then a Meta message whose write finished the Connect
\* message: the success of the first arrives after both pending proposals
C39_Witness ==
    /\ Entered = 1 /\ plog[1].op = "execute_requests"
    /\ Len(accepted) = 3
    /\ accepted[1].message = "SendConnectPending"
    /\ accepted[2].message = "SendMetaPending"
    /\ accepted[3].message = "SendConnectSuccess"
    /\ accepted[3].id = accepted[1].id /\ accepted[2].id # accepted[1].id

\* the place in the history where the newest handler was entered
LastEntry == CHOOSE i \in 1..Len(plog) :
                 /\ plog[i].op \in Handlers
                 /\ \A j \in (i + 1)..Len(plog) : plog[j].op \notin Handlers

\* the peer as call j of the history left it, and the proposals accepted by then
PeerAfter(j) == IF j = Len(plog) THEN peer ELSE plog[j + 1].pre
SeenAfter(j) == IF j = Len(plog) THEN Len(accepted) ELSE plog[j + 1].seen

\* C40: the flush loop of a writable event ends: it makes at most one call of
\* try_flush more than the peer holds messages and stops at the first Empty
\* or Pending result; every turn that goes on has taken one message from the
\* peer and has given the state machine exactly one Success or Error
\* proposal when the message was a Connect, Meta or Ack message.
C40_FlushLoopEnds ==
    (Entered > 0 /\ plog[LastEntry].op = "handle_readiness_event"
         /\ Len(plog) > LastEntry) =>
        /\ Len(plog) - LastEntry <= Pending(plog[LastEntry].pre) + 1
        /\ plog[Len(plog)].res.kind \in {"Empty", "Pending"}
        /\ \A j \in (LastEntry + 1)..(Len(plog) - 1) :
               /\ plog[j].res.kind \in {"Ok", "Err"}
               /\ Pending(PeerAfter(j)) = Pending(plog[j].pre) - 1
               /\ IF plog[j].res.message_type = "Other"
                  THEN SeenAfter(j) = plog[j].seen
                  ELSE /\ SeenAfter(j) = plog[j].seen + 1
                       /\ accepted[SeenAfter(j)].message \in ResultMsgs
                       /\ accepted[SeenAfter(j)].id = plog[j].res.id

====
